---- MODULE Spec2Model ----
(***************************************************************************)
(* Model of the extraction benchmark's scoring engine                      *)
(* (tests/extraction-benchmark/evaluation/scorer.py), of the boundary     *)
(* deduplicator (tests/extraction-benchmark/core/deduplicator.py) and of   *)
(* the path from the four-quadrant extraction (core/field_extractor.py)    *)
(* to scoring in run_single_test (orchestrator.py).                        *)
(*                                                                         *)
(* Python values are modelled as follows.                                  *)
(*  - str: a sequence of one-character strings, so that lower() and        *)
(*    strip() are computed character by character.                         *)
(*  - float: an exact rational <<num, den>> with den > 0, kept in lowest   *)
(*    terms (rounding of IEEE doubles is not modelled).                    *)
(*  - a coordinates entry of a field dict: a record whose k says whether   *)
(*    the key is absent, holds None ("null"), holds {} ("empty") or holds  *)
(*    a dict with left, top, width and height ("dict").                    *)
(*  - an exception: pc = "raised" and error names the exception class.     *)
(***************************************************************************)
EXTENDS Integers, Sequences, FiniteSets, TLC

VARIABLES
    pc,             \* "ready" | "matched" | "scored" | "raised" | "dedup_ready" | "deduped" |
                    \* "deduped_twice" | "position_deduped" | "extracting" | "extracted" | "call"
    error,          \* exception class of a raised call, "none" otherwise
    predicted,      \* argument predicted of match_fields / score_extraction
    ground_truth,   \* argument ground_truth
    iou_threshold,  \* argument iou_threshold of match_fields
    weights,        \* argument weights of score_extraction
    pred_coords,    \* local pred_coords of match_fields, per predicted index
    truth_coords,   \* local truth_coords of match_fields, per ground-truth index
    cost_matrix,    \* local cost_matrix of match_fields (rationals)
    matched,        \* returned list of FieldMatch
    missed,         \* returned list of unmatched ground-truth fields
    extra,          \* returned list of unmatched predicted fields
    score,          \* returned ExtractionScore
    fields,         \* argument fields of deduplicate_boundary_fields
    tolerance,      \* argument tolerance
    deduplicated,   \* returned list of the first call
    deduplicated2,  \* returned list of the call on the first call's output
    quadrant,       \* loop variable of _extract_quadrants
    all_fields,     \* local all_fields of _extract_quadrants
    extraction,     \* ExtractionTestResult returned by _extract_quadrants (fields, error)
    fn,             \* name of the function called on its own, "none" before the call
    args,           \* its arguments
    result,         \* its return value
    parallel,       \* argument parallel of run_benchmark: max_workers of the pool
    futures,        \* per test configuration, the state of its future and what it returns
    completed,      \* local completed of run_benchmark
    results,        \* local results of run_benchmark
    heap,           \* the field dicts shared by concurrent callers, by object identity
    lists,          \* the list objects the callers pass: identities of their field dicts
    given,          \* the contents of the lists when the callers received them
    threads         \* per thread: the call it makes, where it is, what it returned

vars == <<pc, error, predicted, ground_truth, iou_threshold, weights, pred_coords,
          truth_coords, cost_matrix, matched, missed, extra, score, fields,
          tolerance, deduplicated, deduplicated2, quadrant, all_fields, extraction,
          fn, args, result, parallel, futures, completed, results,
          heap, lists, given, threads>>

scoringVars == <<predicted, ground_truth, iou_threshold, weights, pred_coords,
                 truth_coords, cost_matrix, matched, missed, extra, score>>

dedupVars == <<fields, tolerance, deduplicated, deduplicated2>>

harnessVars == <<quadrant, all_fields, extraction>>

callVars == <<fn, args, result>>

benchmarkVars == <<parallel, futures, completed, results>>

threadVars == <<heap, lists, given, threads>>

----------------------------------------------------------------------------
(* Bounds of the model *)

\* longest predicted / ground-truth list drawn from PlainPool
MaxFields == 2

\* longest predicted / ground-truth list drawn from GeometryPool
MaxGeomFields == 1

\* longest list handed to deduplicate_boundary_fields
MaxDedupFields == 3

\* largest left, top, width and height of the rectangles handed to calculate_iou
MaxCoord == 2

\* longest predicted / ground-truth list drawn from OverlapPool
MaxOverlapFields == 2

\* test configurations of one run_benchmark
MaxConfigs == 3

\* length of the list that concurrent callers share
MaxSharedFields == 2

----------------------------------------------------------------------------
(* Rationals *)

Abs(x) == IF x < 0 THEN -x ELSE x

Min2(a, b) == IF a <= b THEN a ELSE b

Max2(a, b) == IF a >= b THEN a ELSE b

RECURSIVE Gcd(_, _)
Gcd(a, b) == IF b = 0 THEN a ELSE Gcd(b, a % b)

\* the rational n/d (d # 0) in lowest terms with a positive denominator
Rat(n, d) ==
    LET s == IF d < 0 THEN -1 ELSE 1
        g == Gcd(Abs(n), Abs(d))
    IN  <<(s * n) \div g, (s * d) \div g>>

RZero == <<0, 1>>

ROne == <<1, 1>>

RAdd(x, y) == Rat(x[1] * y[2] + y[1] * x[2], x[2] * y[2])

RMul(x, y) == Rat(x[1] * y[1], x[2] * y[2])

RNeg(x) == <<-x[1], x[2]>>

RDivInt(x, n) == Rat(x[1], x[2] * n)

RLess(x, y) == x[1] * y[2] < y[1] * x[2]

RLeq(x, y) == x[1] * y[2] <= y[1] * x[2]

RFromInt(n) == <<n, 1>>

RECURSIVE RSum(_)
RSum(s) == IF s = <<>> THEN RZero ELSE RAdd(Head(s), RSum(Tail(s)))

----------------------------------------------------------------------------
(* Strings: str.lower(), str.strip() *)

\* the lower-case letter of every upper-case letter
LowerOf ==
    [A |-> "a", B |-> "b", C |-> "c", D |-> "d", E |-> "e", F |-> "f", G |-> "g",
     H |-> "h", I |-> "i", J |-> "j", K |-> "k", L |-> "l", M |-> "m", N |-> "n",
     O |-> "o", P |-> "p", Q |-> "q", R |-> "r", S |-> "s", T |-> "t", U |-> "u",
     V |-> "v", W |-> "w", X |-> "x", Y |-> "y", Z |-> "z"]

LowerChar(c) == IF c \in DOMAIN LowerOf THEN LowerOf[c] ELSE c

\* str.lower()
Lower(s) == [i \in DOMAIN s |-> LowerChar(s[i])]

IsSpace(c) == c \in {" ", "\t", "\n"}

RECURSIVE LStrip(_)
LStrip(s) == IF s # <<>> /\ IsSpace(Head(s)) THEN LStrip(Tail(s)) ELSE s

RECURSIVE RStrip(_)
RStrip(s) ==
    IF s # <<>> /\ IsSpace(s[Len(s)]) THEN RStrip(SubSeq(s, 1, Len(s) - 1)) ELSE s

\* str.strip()
Strip(s) == RStrip(LStrip(s))

\* longest common subsequence, the alignment behind Levenshtein.ratio
RECURSIVE Lcs(_, _)
Lcs(a, b) ==
    IF a = <<>> \/ b = <<>> THEN 0
    ELSE IF Head(a) = Head(b) THEN 1 + Lcs(Tail(a), Tail(b))
    ELSE Max2(Lcs(Tail(a), b), Lcs(a, Tail(b)))

\* Levenshtein.ratio(a, b): (lensum - dist) / lensum with substitution cost 2,
\* i.e. 2 * lcs / lensum; 1.0 for two empty strings
LevenshteinRatio(a, b) ==
    IF Len(a) + Len(b) = 0 THEN ROne ELSE Rat(2 * Lcs(a, b), Len(a) + Len(b))

----------------------------------------------------------------------------
(* Field dicts *)

Absent == [k |-> "absent", left |-> 0, top |-> 0, width |-> 0, height |-> 0]

Null == [k |-> "null", left |-> 0, top |-> 0, width |-> 0, height |-> 0]

EmptyDict == [k |-> "empty", left |-> 0, top |-> 0, width |-> 0, height |-> 0]

Rect(l, t, w, h) == [k |-> "dict", left |-> l, top |-> t, width |-> w, height |-> h]

\* dict.get(key, default) on a coordinates entry: the default when the key is absent
GetOr(entry, default) == IF entry.k = "absent" THEN default ELSE entry

\* Python truthiness of a coordinates value (None and {} are falsy)
Truthy(c) == c.k = "dict"

NoTableConfig == [k |-> "absent", coordinates |-> Absent]

NullTableConfig == [k |-> "null", coordinates |-> Absent]

TableConfig(c) == [k |-> "dict", coordinates |-> c]

NoSegments == [k |-> "absent", segs |-> <<>>]

Segments(s) == [k |-> "list", segs |-> s]

NoQuadrant == <<>>

Field(label, type, coords, box, table, segments, tag) ==
    [label |-> label, fieldType |-> type, coordinates |-> coords, box |-> box,
     tableConfig |-> table, dateSegments |-> segments, quadrant |-> tag]

\* a field with primary coordinates only
Plain(label, type, coords) ==
    Field(label, type, coords, Absent, NoTableConfig, NoSegments, NoQuadrant)

----------------------------------------------------------------------------
(* scorer.py: pairwise signals *)

\* dict.get(key, 0) on the four keys: a dict holds all four, {} none of them
RectRight(c) == c.left + c.width

RectBottom(c) == c.top + c.height

\* None.get(...) raises AttributeError in calculate_iou
IouRaises(pred_c, truth_c) == pred_c.k = "null" \/ truth_c.k = "null"

\* the union taken as the sum of the two areas
CalculateIouUnionAsSum(pred_c, truth_c) ==
    LET inter_left == Max2(pred_c.left, truth_c.left)
        inter_top == Max2(pred_c.top, truth_c.top)
        inter_right == Min2(RectRight(pred_c), RectRight(truth_c))
        inter_bottom == Min2(RectBottom(pred_c), RectBottom(truth_c))
        inter_area == (inter_right - inter_left) * (inter_bottom - inter_top)
        p_area == (RectRight(pred_c) - pred_c.left) * (RectBottom(pred_c) - pred_c.top)
        t_area == (RectRight(truth_c) - truth_c.left) * (RectBottom(truth_c) - truth_c.top)
        union_area == p_area + t_area
    IN  IF inter_right <= inter_left \/ inter_bottom <= inter_top THEN RZero
        ELSE IF union_area <= 0 THEN RZero
        ELSE Rat(inter_area, union_area)

\* the quotient taken without the early return for an empty intersection
CalculateIouUnguarded(pred_c, truth_c) ==
    LET inter_left == Max2(pred_c.left, truth_c.left)
        inter_top == Max2(pred_c.top, truth_c.top)
        inter_right == Min2(RectRight(pred_c), RectRight(truth_c))
        inter_bottom == Min2(RectBottom(pred_c), RectBottom(truth_c))
        inter_area == (inter_right - inter_left) * (inter_bottom - inter_top)
        p_area == (RectRight(pred_c) - pred_c.left) * (RectBottom(pred_c) - pred_c.top)
        t_area == (RectRight(truth_c) - truth_c.left) * (RectBottom(truth_c) - truth_c.top)
        union_area == p_area + t_area - inter_area
    IN  IF union_area <= 0 THEN RZero
        ELSE Rat(inter_area, union_area)

\* the intersection taken over the predicted area instead of the union
CalculateIouOverPredicted(pred_c, truth_c) ==
    LET inter_left == Max2(pred_c.left, truth_c.left)
        inter_top == Max2(pred_c.top, truth_c.top)
        inter_right == Min2(RectRight(pred_c), RectRight(truth_c))
        inter_bottom == Min2(RectBottom(pred_c), RectBottom(truth_c))
        inter_area == (inter_right - inter_left) * (inter_bottom - inter_top)
        p_area == (RectRight(pred_c) - pred_c.left) * (RectBottom(pred_c) - pred_c.top)
    IN  IF inter_right <= inter_left \/ inter_bottom <= inter_top THEN RZero
        ELSE IF p_area <= 0 THEN RZero
        ELSE Rat(inter_area, p_area)

CalculateIou(pred_c, truth_c) ==
    LET inter_left == Max2(pred_c.left, truth_c.left)
        inter_top == Max2(pred_c.top, truth_c.top)
        inter_right == Min2(RectRight(pred_c), RectRight(truth_c))
        inter_bottom == Min2(RectBottom(pred_c), RectBottom(truth_c))
        inter_area == (inter_right - inter_left) * (inter_bottom - inter_top)
        p_area == (RectRight(pred_c) - pred_c.left) * (RectBottom(pred_c) - pred_c.top)
        t_area == (RectRight(truth_c) - truth_c.left) * (RectBottom(truth_c) - truth_c.top)
        union_area == p_area + t_area - inter_area
    IN  IF inter_right <= inter_left \/ inter_bottom <= inter_top THEN RZero
        ELSE IF union_area <= 0 THEN RZero
        ELSE Rat(inter_area, union_area)

CalculateLabelSimilarity(pred_label, truth_label) ==
    IF pred_label = <<>> \/ truth_label = <<>> THEN RZero
    ELSE LET norm_pred == Strip(Lower(pred_label))
             norm_truth == Strip(Lower(truth_label))
         IN  IF norm_pred = norm_truth THEN ROne
             ELSE LevenshteinRatio(norm_pred, norm_truth)

S_text == <<"t","e","x","t">>

S_textarea == <<"t","e","x","t","a","r","e","a">>

S_date == <<"d","a","t","e">>

S_linkeddate == <<"l","i","n","k","e","d","d","a","t","e">>

S_linkedDate == <<"l","i","n","k","e","d","D","a","t","e">>

S_checkbox == <<"c","h","e","c","k","b","o","x">>

S_table == <<"t","a","b","l","e">>

S_TEXT == <<"T","E","X","T">>

S_radio == <<"r","a","d","i","o">>

S_signature == <<"s","i","g","n","a","t","u","r","e">>

S_initials == <<"i","n","i","t","i","a","l","s">>

S_circle_choice == <<"c","i","r","c","l","e","_","c","h","o","i","c","e">>

S_linkedText == <<"l","i","n","k","e","d","T","e","x","t">>

\* the enumeration of fieldType
FieldTypes ==
    { S_text, S_textarea, S_checkbox, S_radio, S_date, S_signature, S_initials,
      S_circle_choice, S_table, S_linkedText, S_linkedDate }

CompatiblePairs ==
    { <<S_text, S_textarea>>, <<S_textarea, S_text>>,
      <<S_date, S_linkeddate>>, <<S_linkeddate, S_date>> }

\* the comparison made without lowercasing
TypesCompatibleCaseSensitive(pred_type, truth_type) ==
    LET pred == Strip(pred_type)
        truth == Strip(truth_type)
    IN  \/ pred = truth
        \/ <<pred, truth>> \in CompatiblePairs
        \/ <<truth, pred>> \in CompatiblePairs

TypesCompatible(pred_type, truth_type) ==
    LET pred == Strip(Lower(pred_type))
        truth == Strip(Lower(truth_type))
    IN  \/ pred = truth
        \/ <<pred, truth>> \in CompatiblePairs
        \/ <<truth, pred>> \in CompatiblePairs

----------------------------------------------------------------------------
(* scorer.py: geometry used by match_fields *)

SetMin(S) == CHOOSE x \in S : \A y \in S : x <= y

SetMax(S) == CHOOSE x \in S : \A y \in S : x >= y

\* _bounding_box_from_segments; `not segments` covers None and []
BoundingBoxFromSegments(ds) ==
    IF ds.segs = <<>> THEN Rect(0, 0, 0, 0)
    ELSE LET idx == DOMAIN ds.segs
             min_left == SetMin({ds.segs[i].left : i \in idx})
             min_top == SetMin({ds.segs[i].top : i \in idx})
             max_right == SetMax({RectRight(ds.segs[i]) : i \in idx})
             max_bottom == SetMax({RectBottom(ds.segs[i]) : i \in idx})
         IN  Rect(min_left, min_top, max_right - min_left, max_bottom - min_top)

\* pred.get("coordinates", pred.get("box", {}))
PredCoords(pred) == GetOr(pred.coordinates, GetOr(pred.box, EmptyDict))

\* truth["tableConfig"].get(...) raises AttributeError when tableConfig is None
TruthCoordsRaises(truth) == truth.tableConfig.k = "null"

\* dateSegments overriding the primary coordinates even when these are given
TruthCoordsSegmentsFirst(truth) ==
    LET c == GetOr(truth.coordinates, EmptyDict)
    IN  IF truth.tableConfig.k # "absent"
        THEN GetOr(truth.tableConfig.coordinates, EmptyDict)
        ELSE IF truth.dateSegments.k # "absent"
        THEN BoundingBoxFromSegments(truth.dateSegments)
        ELSE c

\* truth.get("coordinates", {}), overridden by tableConfig, else by dateSegments
\* when the primary coordinates are falsy
TruthCoords(truth) ==
    LET c == GetOr(truth.coordinates, EmptyDict)
    IN  IF truth.tableConfig.k # "absent"
        THEN GetOr(truth.tableConfig.coordinates, EmptyDict)
        ELSE IF truth.dateSegments.k # "absent" /\ ~Truthy(c)
        THEN BoundingBoxFromSegments(truth.dateSegments)
        ELSE c

\* threshold and blend of match_fields
DefaultIouThreshold == <<1, 10>>

IouWeight == <<3, 5>>

LabelWeight == <<2, 5>>

\* the gate applied to the blended score instead of the IoU
PairScoreGatedOnScore(pred, truth, threshold) ==
    LET iou == CalculateIou(PredCoords(pred), TruthCoords(truth))
        label_sim == CalculateLabelSimilarity(pred.label, truth.label)
        s == RAdd(RMul(IouWeight, iou), RMul(LabelWeight, label_sim))
    IN  IF RLess(s, threshold) THEN RZero ELSE s

\* the score of one (pred, truth) pair as entered (negated) in cost_matrix
PairScore(pred, truth, threshold) ==
    LET iou == CalculateIou(PredCoords(pred), TruthCoords(truth))
        label_sim == CalculateLabelSimilarity(pred.label, truth.label)
        s == RAdd(RMul(IouWeight, iou), RMul(LabelWeight, label_sim))
    IN  IF RLess(iou, threshold) THEN RZero ELSE s

\* cost_matrix[i, j] = -score, one row per predicted field (rows and matrix are
\* built as tuples by concatenation, so that each entry is computed once)
RECURSIVE CostRow(_, _, _, _)
CostRow(pred, truth_list, threshold, j) ==
    IF j > Len(truth_list) THEN <<>>
    ELSE <<RNeg(PairScore(pred, truth_list[j], threshold))>>
         \o CostRow(pred, truth_list, threshold, j + 1)

RECURSIVE CostRows(_, _, _, _)
CostRows(pred_list, truth_list, threshold, i) ==
    IF i > Len(pred_list) THEN <<>>
    ELSE <<CostRow(pred_list[i], truth_list, threshold, 1)>>
         \o CostRows(pred_list, truth_list, threshold, i + 1)

CostMatrix(pred_list, truth_list, threshold) == CostRows(pred_list, truth_list, threshold, 1)

\* the loops of match_fields raise when some calculate_iou or tableConfig access does
MatchRaises(pred_list, truth_list) ==
    \/ \E j \in DOMAIN truth_list : TruthCoordsRaises(truth_list[j])
    \/ \E i \in DOMAIN pred_list : \E j \in DOMAIN truth_list :
          IouRaises(PredCoords(pred_list[i]), TruthCoords(truth_list[j]))

----------------------------------------------------------------------------
(* scorer.py: the assignment and the partition of match_fields *)

InjectiveFns(n, m) ==
    {f \in [1..n -> 1..m] : \A a, b \in 1..n : a # b => f[a] # f[b]}

\* the k-th smallest element of a set of integers
KthSmallest(S, k) == CHOOSE x \in S : Cardinality({y \in S : y < x}) = k - 1

\* the complete assignments of an n x m matrix: min(n, m) pairs <<row, col>>, no row
\* and no column twice, listed by ascending row as zip(row_ind, col_ind) yields them
Assignments(n, m) ==
    IF n <= m
    THEN {[k \in 1..n |-> <<k, f[k]>>] : f \in InjectiveFns(n, m)}
    ELSE {[k \in 1..m |->
              LET row == KthSmallest({g[j] : j \in 1..m}, k)
              IN  <<row, CHOOSE j \in 1..m : g[j] = row>>] : g \in InjectiveFns(m, n)}

RECURSIVE TotalCost(_, _)
TotalCost(cost, a) ==
    IF a = <<>> THEN RZero
    ELSE RAdd(cost[Head(a)[1]][Head(a)[2]], TotalCost(cost, Tail(a)))

\* an assignment that takes for every row its cheapest column, columns reused
GreedyAssignment(cost, n, m) ==
    {[i \in 1..n |->
        <<i, CHOOSE j \in 1..m : \A j2 \in 1..m : RLeq(cost[i][j], cost[i][j2])>>]}

\* an assignment of maximal total cost
MaximalCostAssignment(cost, n, m) ==
    LET priced == {<<a, TotalCost(cost, a)>> : a \in Assignments(n, m)}
    IN  {p[1] : p \in {q \in priced : \A r \in priced : RLeq(r[2], q[2])}}

\* scipy.optimize.linear_sum_assignment(cost_matrix): the complete assignments of
\* minimal total cost; which of several minimal ones is returned is the solver's choice
LinearSumAssignment(cost, n, m) ==
    LET priced == {<<a, TotalCost(cost, a)>> : a \in Assignments(n, m)}
    IN  {p[1] : p \in {q \in priced : \A r \in priced : RLeq(q[2], r[2])}}

FieldMatch(pred_idx, truth_idx, pred, truth) ==
    [pred_idx |-> pred_idx, truth_idx |-> truth_idx,
     predicted |-> pred, ground_truth |-> truth,
     iou |-> CalculateIou(PredCoords(pred), TruthCoords(truth)),
     label_similarity |-> CalculateLabelSimilarity(pred.label, truth.label),
     type_correct |-> TypesCompatible(pred.fieldType, truth.fieldType)]

\* a pair of the assignment is kept when -cost_matrix[pred_idx, truth_idx] > 0
ValidMatch(cost, pair) == RLess(RZero, RNeg(cost[pair[1]][pair[2]]))

RECURSIVE Matched(_, _, _, _)
Matched(pred_list, truth_list, cost, a) ==
    IF a = <<>> THEN <<>>
    ELSE LET pair == Head(a)
             rest == Matched(pred_list, truth_list, cost, Tail(a))
         IN  IF ValidMatch(cost, pair)
             THEN <<FieldMatch(pair[1], pair[2], pred_list[pair[1]], truth_list[pair[2]])>>
                  \o rest
             ELSE rest

\* [list[i] for i in range(n) if i not in indices]
RECURSIVE Unmatched(_, _, _)
Unmatched(list, indices, i) ==
    IF i > Len(list) THEN <<>>
    ELSE (IF i \in indices THEN <<>> ELSE <<list[i]>>) \o Unmatched(list, indices, i + 1)

\* missed counted from the columns the solver left out, not from the retained matches
MissedOfAssignment(truth_list, m, a) ==
    Unmatched(truth_list, {a[k][2] : k \in DOMAIN a}, 1)

Missed(truth_list, m, a) ==
    Unmatched(truth_list, {m[k].truth_idx : k \in DOMAIN m}, 1)

Extra(pred_list, m) ==
    Unmatched(pred_list, {m[k].pred_idx : k \in DOMAIN m}, 1)

\* the outcomes of match_fields(pred_list, truth_list, threshold)
MatchOutcomes(pred_list, truth_list, threshold) ==
    IF pred_list = <<>> \/ truth_list = <<>>
    THEN {[raised |-> FALSE, pred_coords |-> <<>>, truth_coords |-> <<>>,
           cost_matrix |-> <<>>, matched |-> <<>>,
           missed |-> truth_list, extra |-> pred_list]}
    ELSE IF MatchRaises(pred_list, truth_list)
    THEN {[raised |-> TRUE, pred_coords |-> <<>>, truth_coords |-> <<>>,
           cost_matrix |-> <<>>, matched |-> <<>>, missed |-> <<>>, extra |-> <<>>]}
    ELSE LET cost == CostMatrix(pred_list, truth_list, threshold)
             solved == {<<a, Matched(pred_list, truth_list, cost, a)>> :
                           a \in LinearSumAssignment(cost, Len(pred_list), Len(truth_list))}
             coords_p == [i \in DOMAIN pred_list |-> PredCoords(pred_list[i])]
             coords_t == [j \in DOMAIN truth_list |-> TruthCoords(truth_list[j])]
         IN  {[raised |-> FALSE,
               pred_coords |-> coords_p,
               truth_coords |-> coords_t,
               cost_matrix |-> cost,
               matched |-> am[2],
               missed |-> Missed(truth_list, am[2], am[1]),
               extra |-> Extra(pred_list, am[2])] : am \in solved}

----------------------------------------------------------------------------
(* scorer.py: score_extraction *)

WeightKeys ==
    {"detection_rate", "precision_rate", "avg_iou", "type_accuracy", "label_accuracy"}

\* five equal weights
DefaultWeightsUniform ==
    [detection_rate |-> <<1, 5>>, precision_rate |-> <<1, 5>>, avg_iou |-> <<1, 5>>,
     type_accuracy |-> <<1, 5>>, label_accuracy |-> <<1, 5>>]

\* the weights assigned when the argument is None
DefaultWeights ==
    [detection_rate |-> <<1, 4>>, precision_rate |-> <<1, 10>>, avg_iou |-> <<3, 10>>,
     type_accuracy |-> <<1, 5>>, label_accuracy |-> <<3, 20>>]

WeightsNone == [k |-> "none", keys |-> {}, val |-> [x \in WeightKeys |-> RZero]]

WeightsDict(keys, val) == [k |-> "dict", keys |-> keys, val |-> val]

\* a default weight substituted for every key the mapping lacks
EffectiveWeightsFilled(w) == WeightsDict(WeightKeys, IF w.k = "none" THEN DefaultWeights ELSE w.val)

\* if weights is None: weights = {...}
EffectiveWeights(w) == IF w.k = "none" THEN WeightsDict(WeightKeys, DefaultWeights) ELSE w

\* weights[key] raises KeyError for a key the mapping lacks
WeightsRaise(w) == \E key \in WeightKeys : key \notin EffectiveWeights(w).keys

Hundred == RFromInt(100)

\* a rate over an empty list taken as a vacuous 100
PercentageVacuous(count, total) == IF total > 0 THEN Rat(count * 100, total) ELSE Hundred

\* the rate left as a fraction of 1
PercentageUnscaled(count, total) == IF total > 0 THEN Rat(count, total) ELSE RZero

\* (count / total * 100) if total > 0 else 0
Percentage(count, total) == IF total > 0 THEN Rat(count * 100, total) ELSE RZero

\* (sum(values) / len(values) * 100) if values else 0
MeanPercentage(values) ==
    IF values # <<>> THEN RMul(RDivInt(RSum(values), Len(values)), Hundred) ELSE RZero

Ious(m) == [k \in DOMAIN m |-> m[k].iou]

\* the buckets with both ends open
IouDistributionOpen(m) ==
    [lt25 |-> Cardinality({k \in DOMAIN m : RLess(m[k].iou, <<1, 4>>)}),
     b25_50 |-> Cardinality({k \in DOMAIN m :
                    RLess(<<1, 4>>, m[k].iou) /\ RLess(m[k].iou, <<1, 2>>)}),
     b50_75 |-> Cardinality({k \in DOMAIN m :
                    RLess(<<1, 2>>, m[k].iou) /\ RLess(m[k].iou, <<3, 4>>)}),
     gt75 |-> Cardinality({k \in DOMAIN m : RLess(<<3, 4>>, m[k].iou)})]

IouDistribution(m) ==
    [lt25 |-> Cardinality({k \in DOMAIN m : RLess(m[k].iou, <<1, 4>>)}),
     b25_50 |-> Cardinality({k \in DOMAIN m :
                    RLeq(<<1, 4>>, m[k].iou) /\ RLess(m[k].iou, <<1, 2>>)}),
     b50_75 |-> Cardinality({k \in DOMAIN m :
                    RLeq(<<1, 2>>, m[k].iou) /\ RLess(m[k].iou, <<3, 4>>)}),
     gt75 |-> Cardinality({k \in DOMAIN m : RLeq(<<3, 4>>, m[k].iou)})]

\* {truth_type: {pred_type: count}} as a function on the <<truth_type, pred_type>> seen
TypeConfusion(m) ==
    LET seen == {<<m[k].ground_truth.fieldType, m[k].predicted.fieldType>> : k \in DOMAIN m}
    IN  [tp \in seen |->
            Cardinality({k \in DOMAIN m :
                <<m[k].ground_truth.fieldType, m[k].predicted.fieldType>> = tp})]

\* [f for f in list if f.get("fieldType") == "table"], by index
Tables(list) == {i \in DOMAIN list : list[i].fieldType = S_table}

\* more predicted tables than ground-truth tables required
TableDetectionStrict(pred_list, truth_list) ==
    IF Tables(truth_list) # {}
    THEN Cardinality(Tables(pred_list)) > Cardinality(Tables(truth_list))
    ELSE TRUE

TableDetection(pred_list, truth_list) ==
    IF Tables(truth_list) # {}
    THEN Cardinality(Tables(pred_list)) >= Cardinality(Tables(truth_list))
    ELSE TRUE

RECURSIVE TableIous(_)
TableIous(m) ==
    IF m = <<>> THEN <<>>
    ELSE (IF Head(m).ground_truth.fieldType = S_table THEN <<Head(m).iou>> ELSE <<>>)
         \o TableIous(Tail(m))

\* no matched table scored as 0
TableCellAccuracyZero(m) ==
    IF TableIous(m) # <<>> THEN MeanPercentage(TableIous(m)) ELSE RZero

TableCellAccuracy(m) ==
    IF TableIous(m) # <<>> THEN MeanPercentage(TableIous(m)) ELSE Hundred

OverallScore(w, detection_rate, precision_rate, avg_iou, type_accuracy, label_accuracy) ==
    RAdd(RMul(w.detection_rate, detection_rate),
    RAdd(RMul(w.precision_rate, precision_rate),
    RAdd(RMul(w.avg_iou, avg_iou),
    RAdd(RMul(w.type_accuracy, type_accuracy),
         RMul(w.label_accuracy, label_accuracy)))))

NoScore == <<>>

\* the ExtractionScore built from the result of match_fields; its matched_fields,
\* missed_fields and extra_fields are the variables matched, missed and extra
ExtractionScore(pred_list, truth_list, w, m) ==
    LET n_truth == Len(truth_list)
        n_pred == Len(pred_list)
        n_matched == Len(m)
        detection_rate == Percentage(n_matched, n_truth)
        precision_rate == Percentage(n_matched, n_pred)
        avg_iou == MeanPercentage(Ious(m))
        type_accuracy ==
            Percentage(Cardinality({k \in DOMAIN m : m[k].type_correct}), n_matched)
        label_accuracy == MeanPercentage([k \in DOMAIN m |-> m[k].label_similarity])
    IN  [detection_rate |-> detection_rate,
         precision_rate |-> precision_rate,
         avg_iou |-> avg_iou,
         iou_distribution |-> IouDistribution(m),
         type_accuracy |-> type_accuracy,
         type_confusion |-> TypeConfusion(m),
         label_accuracy |-> label_accuracy,
         table_detection |-> TableDetection(pred_list, truth_list),
         table_cell_accuracy |-> TableCellAccuracy(m),
         overall_score |-> OverallScore(EffectiveWeights(w).val, detection_rate,
                               precision_rate, avg_iou, type_accuracy, label_accuracy)]

----------------------------------------------------------------------------
(* deduplicator.py *)

\* coordinates_match; `not coords` covers None and {}
CoordinatesMatch(coords1, coords2, tol) ==
    IF ~Truthy(coords1) \/ ~Truthy(coords2) THEN FALSE
    ELSE /\ Abs(coords1.left - coords2.left) <= tol
         /\ Abs(coords1.top - coords2.top) <= tol
         /\ Abs(coords1.width - coords2.width) <= tol
         /\ Abs(coords1.height - coords2.height) <= tol

\* the labels compared as written
LabelsMatchCaseSensitive(label1, label2) ==
    IF label1 = <<>> \/ label2 = <<>> THEN FALSE
    ELSE label1 = label2

LabelsMatch(label1, label2) ==
    IF label1 = <<>> \/ label2 = <<>> THEN FALSE
    ELSE Strip(Lower(label1)) = Strip(Lower(label2))

FieldsMatch(field1, field2, coord_tolerance) ==
    IF Lower(field1.fieldType) # Lower(field2.fieldType) THEN FALSE
    ELSE IF ~LabelsMatch(field1.label, field2.label) THEN FALSE
    ELSE CoordinatesMatch(GetOr(field1.coordinates, GetOr(field1.box, EmptyDict)),
                          GetOr(field2.coordinates, GetOr(field2.box, EmptyDict)),
                          coord_tolerance)

\* f.get("_quadrant", 0)
QuadrantOf(f) == IF f.quadrant = <<>> THEN 0 ELSE f.quadrant[1]

\* x placed by descending key
RECURSIVE InsertByQuadrantDescending(_, _)
InsertByQuadrantDescending(x, sorted) ==
    IF sorted = <<>> THEN <<x>>
    ELSE IF QuadrantOf(Head(sorted)) <= QuadrantOf(x) THEN <<x>> \o sorted
    ELSE <<Head(sorted)>> \o InsertByQuadrantDescending(x, Tail(sorted))

\* x placed after the elements of equal key: equal keys lose their input order
RECURSIVE InsertByQuadrantUnstable(_, _)
InsertByQuadrantUnstable(x, sorted) ==
    IF sorted = <<>> THEN <<x>>
    ELSE IF QuadrantOf(Head(sorted)) > QuadrantOf(x) THEN <<x>> \o sorted
    ELSE <<Head(sorted)>> \o InsertByQuadrantUnstable(x, Tail(sorted))

\* x placed before the first element whose key is not smaller: x preceded every
\* element of `sorted` in the input, so equal keys keep their input order
RECURSIVE InsertByQuadrant(_, _)
InsertByQuadrant(x, sorted) ==
    IF sorted = <<>> THEN <<x>>
    ELSE IF QuadrantOf(Head(sorted)) >= QuadrantOf(x) THEN <<x>> \o sorted
    ELSE <<Head(sorted)>> \o InsertByQuadrant(x, Tail(sorted))

\* the fields scanned in input order, without the sort
Unsorted(fs) == fs

\* sorted(fields, key=lambda f: f.get("_quadrant", 0)), a stable sort
RECURSIVE SortedByQuadrant(_)
SortedByQuadrant(fs) ==
    IF fs = <<>> THEN <<>> ELSE InsertByQuadrant(Head(fs), SortedByQuadrant(Tail(fs)))

\* {k: v for k, v in field.items() if not k.startswith("_")}
StripInternal(f) == [f EXCEPT !.quadrant = NoQuadrant]

\* the inner loop left after the first match
FirstDuplicateOf(sorted_fields, i, seen_indices, tol) ==
    LET later == {j \in (i + 1)..Len(sorted_fields) :
                     j \notin seen_indices /\ FieldsMatch(sorted_fields[i], sorted_fields[j], tol)}
    IN  IF later = {} THEN {} ELSE {SetMin(later)}

\* the inner loop run on the next field only
NextDuplicateOf(sorted_fields, i, seen_indices, tol) ==
    {j \in {i + 1} \cap DOMAIN sorted_fields :
        j \notin seen_indices /\ FieldsMatch(sorted_fields[i], sorted_fields[j], tol)}

\* the later indices the inner loop adds to seen_indices for the field at i
DuplicatesOf(sorted_fields, i, seen_indices, tol) ==
    {j \in (i + 1)..Len(sorted_fields) :
        j \notin seen_indices /\ FieldsMatch(sorted_fields[i], sorted_fields[j], tol)}

\* the indices i of sorted_fields for which the outer loop reaches the append
RECURSIVE KeptIndices(_, _, _, _)
KeptIndices(sorted_fields, i, seen_indices, tol) ==
    IF i > Len(sorted_fields) THEN <<>>
    ELSE IF i \in seen_indices THEN KeptIndices(sorted_fields, i + 1, seen_indices, tol)
    ELSE <<i>> \o KeptIndices(sorted_fields, i + 1,
                      seen_indices \cup DuplicatesOf(sorted_fields, i, seen_indices, tol), tol)

\* the outer loop: the kept fields, each appended without its internal keys
DedupLoop(sorted_fields, i, seen_indices, tol) ==
    LET kept == KeptIndices(sorted_fields, i, seen_indices, tol)
    IN  [k \in 1..Len(kept) |-> StripInternal(sorted_fields[kept[k]])]

DeduplicateBoundaryFieldsOf(fs, tol) ==
    IF fs = <<>> THEN <<>> ELSE DedupLoop(SortedByQuadrant(fs), 1, {}, tol)

\* field.get("coordinates", field.get("box", {}))
CoordsOrBox(f) == GetOr(f.coordinates, GetOr(f.box, EmptyDict))

\* the inner loop of deduplicate_by_position compared on label and type as well
IsDuplicateSameLabel(field, existing_fields, tol) ==
    \E k \in DOMAIN existing_fields : FieldsMatch(field, existing_fields[k], tol)

\* the inner loop of deduplicate_by_position: some kept field has matching coordinates
IsDuplicate(field, existing_fields, tol) ==
    \E k \in DOMAIN existing_fields :
        CoordinatesMatch(CoordsOrBox(field), CoordsOrBox(existing_fields[k]), tol)

RECURSIVE PositionLoop(_, _, _, _)
PositionLoop(fs, i, kept, tol) ==
    IF i > Len(fs) THEN kept
    ELSE IF ~Truthy(CoordsOrBox(fs[i])) THEN PositionLoop(fs, i + 1, Append(kept, fs[i]), tol)
    ELSE IF IsDuplicate(fs[i], kept, tol) THEN PositionLoop(fs, i + 1, kept, tol)
    ELSE PositionLoop(fs, i + 1, Append(kept, fs[i]), tol)

DeduplicateByPositionOf(fs, tol) ==
    IF fs = <<>> THEN <<>> ELSE PositionLoop(fs, 1, <<>>, tol)

----------------------------------------------------------------------------
(* Inputs *)

L_Name == <<"N","a","m","e">>

L_name_sp == <<" ","n","a","m","e">>

L_Names == <<"N","a","m","e","s">>

L_Age == <<"A","g","e">>

L_empty == <<>>

L_sp_NAME == <<" ","N","A","M","E">>

\* fields with primary coordinates only: an empty label on a rectangle that overlaps
\* the first by a third, a pair that ties on rectangle and normalized label but
\* not on type, and a similar label on a wide rectangle that overlaps the others by
\* less than the default threshold
PlainPool ==
    { Plain(L_Name, S_text, Rect(0, 0, 2, 2)),
      Plain(L_empty, S_TEXT, Rect(1, 0, 2, 2)),
      Plain(L_sp_NAME, S_checkbox, Rect(0, 0, 2, 2)),
      Plain(L_Names, S_textarea, Rect(0, 0, 21, 1)) }

\* one field per way a field dict can carry (or lack) its geometry
GeometryPool ==
    { Plain(L_Name, S_text, Rect(0, 0, 2, 2)),
      Plain(L_Name, S_text, Absent),
      Plain(L_Name, S_text, EmptyDict),
      Plain(L_Name, S_text, Null),
      Field(L_Age, S_table, Absent, Absent, TableConfig(Rect(0, 0, 2, 2)), NoSegments, NoQuadrant),
      Field(L_Age, S_table, Rect(0, 0, 2, 2), Absent, TableConfig(Rect(1, 0, 2, 2)), NoSegments, NoQuadrant),
      Field(L_Age, S_table, Rect(0, 0, 2, 2), Absent, TableConfig(Absent), NoSegments, NoQuadrant),
      Field(L_Age, S_table, Absent, Absent, NullTableConfig, NoSegments, NoQuadrant),
      Field(L_Name, S_linkedDate, Absent, Absent, NoTableConfig,
            Segments(<<Rect(0, 0, 1, 2), Rect(1, 1, 1, 1)>>), NoQuadrant),
      Field(L_Name, S_linkedDate, Rect(1, 0, 2, 2), Absent, NoTableConfig,
            Segments(<<Rect(0, 0, 1, 2), Rect(1, 1, 1, 1)>>), NoQuadrant),
      Field(L_Name, S_linkedDate, Absent, Absent, NoTableConfig, Segments(<<>>), NoQuadrant),
      Field(L_Name, S_text, Absent, Rect(0, 0, 2, 2), NoTableConfig, NoSegments, NoQuadrant) }

Tagged(f, q) == [f EXCEPT !.quadrant = <<q>>]

\* detections of overlapping quadrants, with and without a _quadrant tag
DedupPool ==
    { Tagged(Plain(L_Name, S_text, Rect(10, 10, 30, 3)), 1),
      Tagged(Plain(L_name_sp, S_TEXT, Rect(11, 10, 30, 3)), 2),
      Tagged(Plain(L_Name, S_text, Rect(13, 10, 30, 3)), 3),
      Plain(L_Age, S_text, Rect(10, 10, 30, 3)),
      Tagged(Plain(L_empty, S_text, Rect(10, 10, 30, 3)), 1),
      Tagged(Plain(L_Name, S_text, Absent), 2) }

\* detections in a list that concurrent callers share: two of neighbouring
\* quadrants that match each other, and an untagged one at the place of the first
SharedPool ==
    { Tagged(Plain(L_Name, S_text, Rect(10, 10, 30, 3)), 1),
      Tagged(Plain(L_name_sp, S_TEXT, Rect(11, 10, 30, 3)), 2),
      Plain(L_Age, S_text, Rect(10, 10, 30, 3)) }

\* ground truth of the shared lists: fields of the benchmark at the place of
\* the detections
SharedTruthPool ==
    { Plain(L_Name, S_text, Rect(10, 10, 30, 3)),
      Plain(L_Age, S_text, Rect(12, 10, 30, 3)) }

L_space == <<" ">>

L_spaces == <<" ", " ">>

\* labels handed to calculate_label_similarity: equal up to case and padding,
\* similar, different, empty, and made of whitespace only
Labels == {L_Name, L_name_sp, L_sp_NAME, L_Names, L_Age, L_empty, L_space, L_spaces}

\* str.upper(), character by character
UpperChar(c) ==
    IF \E u \in DOMAIN LowerOf : LowerOf[u] = c
    THEN CHOOSE u \in DOMAIN LowerOf : LowerOf[u] = c
    ELSE c

Upper(str) == [i \in DOMAIN str |-> UpperChar(str[i])]

S_text_padded == <<" ","t","e","x","t"," ">>

\* the eleven field types as enumerated, in lower case, in upper case, and one
\* with surrounding whitespace
TypeStrings ==
    FieldTypes \cup {Lower(t) : t \in FieldTypes} \cup {Upper(t) : t \in FieldTypes}
        \cup {S_text_padded}

\* rectangles handed to calculate_iou: {} and the dicts with offsets in
\* 0..MaxCoord and extents in -1..MaxCoord (zero and negative extents included)
Rectangles ==
    {EmptyDict} \cup
    { Rect(l, t, w, h) : l \in 0..MaxCoord, t \in 0..MaxCoord,
                         w \in -1..MaxCoord, h \in -1..MaxCoord }

\* fields handed to fields_match: the detections of DedupPool and fields that
\* differ from them in one respect
MatchPool ==
    DedupPool \cup
    { Plain(L_empty, S_text, Rect(10, 10, 30, 3)),
      Plain(L_spaces, S_text, Rect(10, 10, 30, 3)),
      Plain(L_Name, S_text_padded, Rect(10, 10, 30, 3)),
      Plain(L_Name, S_checkbox, Rect(10, 10, 30, 3)),
      Plain(L_Name, S_text, Rect(10, 12, 30, 3)),
      Plain(L_Name, S_text, Rect(10, 10, 32, 5)),
      Plain(L_Name, S_text, EmptyDict),
      Field(L_Name, S_text, Absent, Rect(10, 10, 30, 3), NoTableConfig, NoSegments, NoQuadrant),
      Field(L_Name, S_text, EmptyDict, Rect(10, 10, 30, 3), NoTableConfig, NoSegments, NoQuadrant) }

\* fields of one label and type whose rectangles overlap pairwise by exactly
\* 3/4, 1/2 and 1/4
OverlapPool ==
    { Plain(L_Name, S_text, Rect(0, 0, 4, 1)),
      Plain(L_Name, S_text, Rect(0, 0, 3, 1)),
      Plain(L_Name, S_text, Rect(2, 0, 2, 1)) }

\* the last of the quadrants [1, 2, 3, 4]
LastQuadrant == 4

\* tolerance of deduplicate_boundary_fields when the caller passes none
DefaultTolerance == 3

\* result.fields of one quadrant's extract_fields: nothing, a field at the
\* boundary, the same field as seen from the next quadrant, or two fields
QuadrantResults ==
    { <<>>,
      <<Plain(L_Name, S_text, Rect(10, 10, 30, 3))>>,
      <<Plain(L_name_sp, S_TEXT, Rect(11, 10, 30, 3))>>,
      <<Plain(L_Name, S_text, Rect(10, 10, 30, 3)), Plain(L_Age, S_checkbox, Rect(50, 50, 3, 3))>> }

\* the ground truth the harness scores against
Benchmarks ==
    { <<Plain(L_Name, S_text, Rect(10, 10, 30, 3))>>,
      <<Plain(L_Name, S_text, Rect(10, 10, 30, 3)), Plain(L_Age, S_checkbox, Rect(50, 50, 3, 3))>> }

Lists(S, n) == UNION {[1..k -> S] : k \in 0..n}

Thresholds == {DefaultIouThreshold, <<1, 2>>, RZero}

\* None, a complete mapping, and a mapping that lacks label_accuracy
WeightsArgs ==
    { WeightsNone,
      WeightsDict(WeightKeys, [DefaultWeights EXCEPT !.detection_rate = <<1, 2>>]),
      WeightsDict(WeightKeys \ {"label_accuracy"}, DefaultWeights) }

\* the empty mapping and the mappings that lack one of the five keys
IncompleteWeights ==
    { WeightsDict({}, DefaultWeights) }
    \cup { WeightsDict(WeightKeys \ {key}, DefaultWeights) : key \in WeightKeys }

Tolerances == {1, 2, 3}

----------------------------------------------------------------------------
(* The calls *)

NoExtraction == [fields |-> <<>>, error |-> "none"]

\* the state before a call: no result, no exception, default arguments
NoCallYet ==
    /\ error = "none"
    /\ iou_threshold = DefaultIouThreshold
    /\ weights = WeightsNone
    /\ pred_coords = <<>>
    /\ truth_coords = <<>>
    /\ cost_matrix = <<>>
    /\ matched = <<>>
    /\ missed = <<>>
    /\ extra = <<>>
    /\ score = NoScore
    /\ tolerance = 0
    /\ deduplicated = <<>>
    /\ deduplicated2 = <<>>
    /\ quadrant = 0
    /\ all_fields = <<>>
    /\ extraction = NoExtraction
    /\ fn = "none"
    /\ args = <<>>
    /\ result = <<>>
    /\ parallel = 0
    /\ futures = <<>>
    /\ completed = 0
    /\ results = <<>>
    /\ heap = <<>>
    /\ lists = <<>>
    /\ given = <<>>
    /\ threads = <<>>

\* a scoring call on lists of fields with primary coordinates
Init ==
    /\ pc = "ready"
    /\ predicted \in Lists(PlainPool, MaxFields)
    /\ ground_truth \in Lists(PlainPool, MaxFields)
    /\ fields = <<>>
    /\ NoCallYet

\* a scoring call on lists of fields with every kind of geometry
InitGeom ==
    /\ pc = "ready"
    /\ predicted \in Lists(GeometryPool, MaxGeomFields)
    /\ ground_truth \in Lists(GeometryPool, MaxGeomFields)
    /\ fields = <<>>
    /\ NoCallYet

\* a scoring call on lists of fields that overlap at the bucket boundaries
InitOverlap ==
    /\ pc = "ready"
    /\ predicted \in Lists(OverlapPool, MaxOverlapFields)
    /\ ground_truth \in Lists(OverlapPool, MaxOverlapFields)
    /\ fields = <<>>
    /\ NoCallYet

\* a deduplication call
InitDedup ==
    /\ pc = "dedup_ready"
    /\ predicted = <<>>
    /\ ground_truth = <<>>
    /\ fields \in Lists(DedupPool, MaxDedupFields)
    /\ NoCallYet

\* match_fields(predicted, ground_truth, iou_threshold)
MatchFields ==
    /\ pc = "ready"
    /\ \E th \in Thresholds : \E o \in MatchOutcomes(predicted, ground_truth, th) :
          /\ iou_threshold' = th
          /\ pc' = IF o.raised THEN "raised" ELSE "matched"
          /\ error' = IF o.raised THEN "AttributeError" ELSE "none"
          /\ pred_coords' = o.pred_coords
          /\ truth_coords' = o.truth_coords
          /\ cost_matrix' = o.cost_matrix
          /\ matched' = o.matched
          /\ missed' = o.missed
          /\ extra' = o.extra
    /\ UNCHANGED <<predicted, ground_truth, weights, score>>
    /\ UNCHANGED dedupVars
    /\ UNCHANGED harnessVars
    /\ UNCHANGED callVars
    /\ UNCHANGED benchmarkVars
    /\ UNCHANGED threadVars

\* score_extraction(predicted, ground_truth, weights) with weights drawn from W
ScoreExtractionWith(W) ==
    /\ pc = "ready"
    /\ \E o \in MatchOutcomes(predicted, ground_truth, DefaultIouThreshold) :
       \E w \in W :
          /\ weights' = w
          /\ pc' = IF o.raised \/ WeightsRaise(w) THEN "raised" ELSE "scored"
          /\ error' = IF o.raised THEN "AttributeError"
                      ELSE IF WeightsRaise(w) THEN "KeyError" ELSE "none"
          /\ pred_coords' = o.pred_coords
          /\ truth_coords' = o.truth_coords
          /\ cost_matrix' = o.cost_matrix
          /\ matched' = o.matched
          /\ missed' = o.missed
          /\ extra' = o.extra
          /\ score' = IF o.raised \/ WeightsRaise(w) THEN NoScore
                      ELSE ExtractionScore(predicted, ground_truth, w, o.matched)
    /\ UNCHANGED <<predicted, ground_truth, iou_threshold>>
    /\ UNCHANGED dedupVars
    /\ UNCHANGED harnessVars
    /\ UNCHANGED callVars
    /\ UNCHANGED benchmarkVars
    /\ UNCHANGED threadVars

\* score_extraction(predicted, ground_truth, weights)
ScoreExtraction == ScoreExtractionWith(WeightsArgs)

\* score_extraction called with complete and with incomplete weights
ScoreExtractionAnyWeights == ScoreExtractionWith(WeightsArgs \cup IncompleteWeights)

\* deduplicate_boundary_fields(fields, tolerance)
DeduplicateBoundaryFields ==
    /\ pc = "dedup_ready"
    /\ \E tol \in Tolerances :
          /\ tolerance' = tol
          /\ deduplicated' = DeduplicateBoundaryFieldsOf(fields, tol)
    /\ pc' = "deduped"
    /\ UNCHANGED <<error, fields, deduplicated2>>
    /\ UNCHANGED scoringVars
    /\ UNCHANGED harnessVars
    /\ UNCHANGED callVars
    /\ UNCHANGED benchmarkVars
    /\ UNCHANGED threadVars

\* deduplicate_boundary_fields(deduplicated, tolerance), on the first call's output
DeduplicateAgain ==
    /\ pc = "deduped"
    /\ deduplicated2' = DeduplicateBoundaryFieldsOf(deduplicated, tolerance)
    /\ pc' = "deduped_twice"
    /\ UNCHANGED <<error, fields, tolerance, deduplicated>>
    /\ UNCHANGED scoringVars
    /\ UNCHANGED harnessVars
    /\ UNCHANGED callVars
    /\ UNCHANGED benchmarkVars
    /\ UNCHANGED threadVars

\* deduplicate_by_position(fields, tolerance)
DeduplicateByPosition ==
    /\ pc = "dedup_ready"
    /\ \E tol \in Tolerances :
          /\ tolerance' = tol
          /\ deduplicated' = DeduplicateByPositionOf(fields, tol)
    /\ pc' = "position_deduped"
    /\ UNCHANGED <<error, fields, deduplicated2>>
    /\ UNCHANGED scoringVars
    /\ UNCHANGED harnessVars
    /\ UNCHANGED callVars
    /\ UNCHANGED benchmarkVars
    /\ UNCHANGED threadVars

\* a function called on its own
Called(name, arguments, value) ==
    /\ fn' = name
    /\ args' = arguments
    /\ result' = value
    /\ UNCHANGED <<pc, error>>
    /\ UNCHANGED scoringVars
    /\ UNCHANGED dedupVars
    /\ UNCHANGED harnessVars
    /\ UNCHANGED benchmarkVars
    /\ UNCHANGED threadVars

\* no function has been called yet
Callable == pc = "call" /\ fn = "none"

InitCall ==
    /\ pc = "call"
    /\ predicted = <<>>
    /\ ground_truth = <<>>
    /\ fields = <<>>
    /\ NoCallYet

\* calculate_iou(pred_coords, truth_coords)
CallCalculateIou ==
    /\ Callable
    /\ \E p \in Rectangles, t \in Rectangles :
          Called("calculate_iou", <<p, t>>, CalculateIou(p, t))

\* calculate_label_similarity(pred_label, truth_label)
CallCalculateLabelSimilarity ==
    /\ Callable
    /\ \E p \in Labels, t \in Labels :
          Called("calculate_label_similarity", <<p, t>>, CalculateLabelSimilarity(p, t))

\* types_compatible(pred_type, truth_type)
CallTypesCompatible ==
    /\ Callable
    /\ \E p \in TypeStrings, t \in TypeStrings :
          Called("types_compatible", <<p, t>>, TypesCompatible(p, t))

\* fields_match(field1, field2, coord_tolerance)
CallFieldsMatch ==
    /\ Callable
    /\ \E f1 \in MatchPool, f2 \in MatchPool, tol \in Tolerances :
          Called("fields_match", <<f1, f2, tol>>, FieldsMatch(f1, f2, tol))

NextCall ==
    \/ CallCalculateIou
    \/ CallCalculateLabelSimilarity
    \/ CallTypesCompatible
    \/ CallFieldsMatch

\* run_single_test about to call _extract_quadrants
InitHarness ==
    /\ pc = "extracting"
    /\ predicted = <<>>
    /\ ground_truth \in Benchmarks
    /\ fields = <<>>
    /\ NoCallYet

\* one pass of the loop of _extract_quadrants: extract_fields returns, and the
\* fields it returned are tagged with the quadrant and appended to all_fields
ExtractQuadrant ==
    /\ pc = "extracting"
    /\ quadrant < LastQuadrant
    /\ quadrant' = quadrant + 1
    /\ \E r \in QuadrantResults :
          all_fields' = all_fields \o [k \in DOMAIN r |-> Tagged(r[k], quadrant + 1)]
    /\ UNCHANGED <<pc, error, extraction>>
    /\ UNCHANGED scoringVars
    /\ UNCHANGED dedupVars
    /\ UNCHANGED callVars
    /\ UNCHANGED benchmarkVars
    /\ UNCHANGED threadVars

\* one pass of the loop in which extract_fields raises: _extract_quadrants
\* returns the fields collected so far together with the error
QuadrantFails ==
    /\ pc = "extracting"
    /\ quadrant < LastQuadrant
    /\ quadrant' = quadrant + 1
    /\ extraction' = [fields |-> all_fields, error |-> "Quadrant failed"]
    /\ pc' = "extracted"
    /\ UNCHANGED <<error, all_fields>>
    /\ UNCHANGED scoringVars
    /\ UNCHANGED dedupVars
    /\ UNCHANGED callVars
    /\ UNCHANGED benchmarkVars
    /\ UNCHANGED threadVars

\* after the loop: deduplicate_boundary_fields(all_fields), returned as the fields
DeduplicateQuadrants ==
    /\ pc = "extracting"
    /\ quadrant = LastQuadrant
    /\ fields' = all_fields
    /\ tolerance' = DefaultTolerance
    /\ deduplicated' = DeduplicateBoundaryFieldsOf(all_fields, DefaultTolerance)
    /\ extraction' = [fields |-> deduplicated', error |-> "none"]
    /\ pc' = "extracted"
    /\ UNCHANGED <<error, deduplicated2, quadrant, all_fields>>
    /\ UNCHANGED scoringVars
    /\ UNCHANGED callVars
    /\ UNCHANGED benchmarkVars
    /\ UNCHANGED threadVars

\* run_single_test after the extraction: score_extraction(extraction.fields, benchmark)
RunSingleTest ==
    /\ pc = "extracted"
    /\ predicted' = extraction.fields
    /\ \E o \in MatchOutcomes(extraction.fields, ground_truth, DefaultIouThreshold) :
          /\ pc' = IF o.raised THEN "raised" ELSE "scored"
          /\ error' = IF o.raised THEN "AttributeError" ELSE "none"
          /\ pred_coords' = o.pred_coords
          /\ truth_coords' = o.truth_coords
          /\ cost_matrix' = o.cost_matrix
          /\ matched' = o.matched
          /\ missed' = o.missed
          /\ extra' = o.extra
          /\ score' = IF o.raised THEN NoScore
                      ELSE ExtractionScore(extraction.fields, ground_truth, WeightsNone, o.matched)
    /\ UNCHANGED <<ground_truth, iou_threshold, weights>>
    /\ UNCHANGED dedupVars
    /\ UNCHANGED harnessVars
    /\ UNCHANGED callVars
    /\ UNCHANGED benchmarkVars
    /\ UNCHANGED threadVars

NextHarness ==
    \/ ExtractQuadrant
    \/ QuadrantFails
    \/ DeduplicateQuadrants
    \/ RunSingleTest

----------------------------------------------------------------------------
(* orchestrator.py: run_benchmark *)

\* test_configs, by position in the test matrix
TestConfigs == 1..MaxConfigs

\* str(e) of the exceptions a run can raise: an exception built without
\* arguments has the empty message
Messages == {"", "Unknown architecture"}

\* what run_test_wrapper returns for config: (config, result, None) when
\* run_single_test returns, (config, None, str(e)) when it raises; the result
\* is <<config>>, the TestResult of the configuration, or <<>> for None
WrapperReturns(config) ==
    {[config |-> config, result |-> <<config>>, error |-> "None"]}
        \cup {[config |-> config, result |-> <<>>, error |-> m] : m \in Messages}

NotRun == [config |-> 0, result |-> <<>>, error |-> "None"]

\* the test of `if error:`
ErrorIsTruthy(err) == err \notin {"None", ""}

\* results.append(result)
Appended(rs, r) == Append(rs, r)

\* save_result(result, output_path): reading result.config of None raises,
\* and writing the file can fail
SaveOutcomes(r) == IF r = <<>> THEN {"AttributeError"} ELSE {"saved", "OSError"}

\* run_benchmark inside the with block: every configuration is submitted
InitBenchmark ==
    /\ pc = "collecting"
    /\ predicted = <<>>
    /\ ground_truth = <<>>
    /\ fields = <<>>
    /\ error = "none"
    /\ iou_threshold = DefaultIouThreshold
    /\ weights = WeightsNone
    /\ pred_coords = <<>>
    /\ truth_coords = <<>>
    /\ cost_matrix = <<>>
    /\ matched = <<>>
    /\ missed = <<>>
    /\ extra = <<>>
    /\ score = NoScore
    /\ tolerance = 0
    /\ deduplicated = <<>>
    /\ deduplicated2 = <<>>
    /\ quadrant = 0
    /\ all_fields = <<>>
    /\ extraction = NoExtraction
    /\ fn = "none"
    /\ args = <<>>
    /\ result = <<>>
    /\ parallel \in {1, 2}
    /\ futures = [c \in TestConfigs |-> [state |-> "pending", returns |-> NotRun]]
    /\ completed = 0
    /\ results = <<>>
    /\ heap = <<>>
    /\ lists = <<>>
    /\ given = <<>>
    /\ threads = <<>>

Running == {c \in TestConfigs : futures[c].state = "running"}

\* a free worker of the pool takes a pending configuration
WorkerStarts ==
    /\ Cardinality(Running) < parallel
    /\ \E c \in TestConfigs :
          /\ futures[c].state = "pending"
          /\ futures' = [futures EXCEPT ![c].state = "running"]
    /\ UNCHANGED <<pc, error, fields, parallel, completed, results>>
    /\ UNCHANGED scoringVars
    /\ UNCHANGED <<tolerance, deduplicated, deduplicated2>>
    /\ UNCHANGED harnessVars
    /\ UNCHANGED callVars
    /\ UNCHANGED threadVars

\* run_test_wrapper returns in a worker: the future is finished
WorkerReturns ==
    /\ \E c \in TestConfigs :
          /\ futures[c].state = "running"
          /\ \E r \in WrapperReturns(c) :
                futures' = [futures EXCEPT ![c] = [state |-> "finished", returns |-> r]]
    /\ UNCHANGED <<pc, error, fields, parallel, completed, results>>
    /\ UNCHANGED scoringVars
    /\ UNCHANGED <<tolerance, deduplicated, deduplicated2>>
    /\ UNCHANGED harnessVars
    /\ UNCHANGED callVars
    /\ UNCHANGED threadVars

\* one pass of the loop over as_completed: a finished future is counted, and
\* its result is appended and saved unless its error is truthy; an exception
\* of save_result leaves the loop
CollectCompleted ==
    /\ pc = "collecting"
    /\ \E c \in TestConfigs :
          /\ futures[c].state = "finished"
          /\ futures' = [futures EXCEPT ![c].state = "collected"]
          /\ completed' = completed + 1
          /\ IF ErrorIsTruthy(futures[c].returns.error)
             THEN UNCHANGED <<pc, error, results>>
             ELSE /\ results' = Appended(results, futures[c].returns.result)
                  /\ \E saved \in SaveOutcomes(futures[c].returns.result) :
                        /\ pc' = IF saved = "saved" THEN "collecting" ELSE "raised"
                        /\ error' = IF saved = "saved" THEN "none" ELSE saved
    /\ UNCHANGED <<fields, parallel>>
    /\ UNCHANGED scoringVars
    /\ UNCHANGED <<tolerance, deduplicated, deduplicated2>>
    /\ UNCHANGED harnessVars
    /\ UNCHANGED callVars
    /\ UNCHANGED threadVars

\* as_completed is exhausted: the loop and the with block are left
PoolDrained ==
    /\ pc = "collecting"
    /\ \A c \in TestConfigs : futures[c].state = "collected"
    /\ pc' = "drained"
    /\ UNCHANGED <<error, fields>>
    /\ UNCHANGED scoringVars
    /\ UNCHANGED <<tolerance, deduplicated, deduplicated2>>
    /\ UNCHANGED harnessVars
    /\ UNCHANGED callVars
    /\ UNCHANGED benchmarkVars
    /\ UNCHANGED threadVars

NextBenchmark ==
    \/ WorkerStarts
    \/ WorkerReturns
    \/ CollectCompleted
    \/ PoolDrained

----------------------------------------------------------------------------
(* Concurrent calls of the scorer and the deduplicators on shared lists *)

\* tolerance: float = 2.0 of deduplicate_by_position
DefaultPositionTolerance == 2

Threads == {1, 2}

Operations ==
    {"deduplicate_boundary_fields", "deduplicate_by_position", "match_fields", "score_extraction"}

\* the field dicts a list object refers to, read from the heap
Deref(ids) == [k \in DOMAIN ids |-> heap[ids[k]]]

\* a list object: its identity and the identities of its field dicts
ListObject(id, items) == [id |-> id, items |-> items]

\* a list built by the call: a literal [], a comprehension, a list appended to
NewList(items) == ListObject("new", items)

\* the list object itself
ListItself(l) == l

\* l.copy()
ListCopy(l) == NewList(l.items)

PredictedList == ListObject("predicted", lists.predicted)

GroundTruthList == ListObject("ground_truth", lists.ground_truth)

\* the argument of a fields.sort(key=...) after the call: sorted in place
ArgumentSortedInPlace(ids, sorted_ids) == sorted_ids

\* the argument of sorted(fields, key=...) after the call: sorted() builds a
\* new list and leaves its argument as it was
ArgumentAfterSorted(ids, sorted_ids) == ids

\* sorted(fields, key=lambda f: f.get("_quadrant", 0)) as a list of the same dicts
SortedIds(ids) ==
    LET keyed == [k \in DOMAIN ids |-> [quadrant |-> heap[ids[k]].quadrant, id |-> ids[k]]]
        sorted == SortedByQuadrant(keyed)
    IN  [k \in DOMAIN sorted |-> sorted[k].id]

\* the dict a kept field is after field_copy is built from it: the
\* comprehension builds a new dict and leaves the field as it was
FieldAfterCopy(f) == f

\* linear_sum_assignment computes one assignment from a cost matrix: the same
\* matrix gives the same assignment in every call
SolverChoice(outcomes) == CHOOSE o \in outcomes : TRUE

\* match_fields(predicted, ground_truth): what it returns by value, and the
\* list objects it returns
MatchFieldsReturns(pred_list, truth_list) ==
    LET solved == {SolverChoice(MatchOutcomes(Deref(pred_list.items),
                                              Deref(truth_list.items), DefaultIouThreshold))}
        empty == pred_list.items = <<>> \/ truth_list.items = <<>>
    IN  CHOOSE r \in
            {[raised |-> o.raised,
              matched |-> o.matched,
              missed |-> o.missed,
              extra |-> o.extra,
              returned |-> IF o.raised THEN {}
                           ELSE IF empty
                           THEN {NewList(<<>>).id, ListCopy(truth_list).id,
                                 ListCopy(pred_list).id}
                           ELSE {NewList(<<>>).id}] : o \in solved} : TRUE

NotCalled == [op |-> "none", at |-> "idle", local |-> <<>>, value |-> <<>>, returned |-> {}]

\* two threads that hold the same two lists of field dicts
InitThreads ==
    /\ pc = "threads"
    /\ predicted = <<>>
    /\ ground_truth = <<>>
    /\ fields = <<>>
    /\ error = "none"
    /\ iou_threshold = DefaultIouThreshold
    /\ weights = WeightsNone
    /\ pred_coords = <<>>
    /\ truth_coords = <<>>
    /\ cost_matrix = <<>>
    /\ matched = <<>>
    /\ missed = <<>>
    /\ extra = <<>>
    /\ score = NoScore
    /\ tolerance = 0
    /\ deduplicated = <<>>
    /\ deduplicated2 = <<>>
    /\ quadrant = 0
    /\ all_fields = <<>>
    /\ extraction = NoExtraction
    /\ fn = "none"
    /\ args = <<>>
    /\ result = <<>>
    /\ parallel = 0
    /\ futures = <<>>
    /\ completed = 0
    /\ results = <<>>
    /\ \E p \in Lists(SharedPool, MaxSharedFields), g \in Lists(SharedTruthPool, 1) :
          /\ heap = p \o g
          /\ lists = [predicted |-> [k \in DOMAIN p |-> k],
                      ground_truth |-> [k \in DOMAIN g |-> Len(p) + k]]
          /\ given = [predicted |-> p, ground_truth |-> g]
    /\ threads = [t \in Threads |-> NotCalled]

\* a thread enters one of the four functions; deduplicate_boundary_fields runs
\* up to its loop: the sorted list is built
EnterCall ==
    /\ \E t \in Threads :
          /\ threads[t].at = "idle"
          /\ \E op \in Operations :
                LET sorted_ids == SortedIds(lists.predicted)
                IN  IF op = "deduplicate_boundary_fields" /\ lists.predicted # <<>>
                    THEN /\ threads' = [threads EXCEPT ![t].op = op, ![t].at = "running",
                                                       ![t].local = sorted_ids]
                         /\ lists' = [lists EXCEPT
                                         !.predicted = ArgumentAfterSorted(@, sorted_ids)]
                    ELSE /\ threads' = [threads EXCEPT ![t].op = op, ![t].at = "running"]
                         /\ lists' = lists
    /\ UNCHANGED <<pc, error, fields, heap, given>>
    /\ UNCHANGED scoringVars
    /\ UNCHANGED <<tolerance, deduplicated, deduplicated2>>
    /\ UNCHANGED harnessVars
    /\ UNCHANGED callVars
    /\ UNCHANGED benchmarkVars

\* deduplicate_boundary_fields(predicted) runs its loop and returns
ReturnDeduplicateBoundaryFields ==
    /\ \E t \in Threads :
          /\ threads[t].at = "running"
          /\ threads[t].op = "deduplicate_boundary_fields"
          /\ LET sorted_fields == Deref(threads[t].local)
                 kept == KeptIndices(sorted_fields, 1, {}, DefaultTolerance)
                 kept_ids == {threads[t].local[kept[k]] : k \in DOMAIN kept}
             IN  /\ threads' = [threads EXCEPT
                       ![t].at = "returned",
                       ![t].value = DedupLoop(sorted_fields, 1, {}, DefaultTolerance),
                       ![t].returned = {NewList(<<>>).id}]
                 /\ heap' = [i \in DOMAIN heap |->
                                IF i \in kept_ids THEN FieldAfterCopy(heap[i]) ELSE heap[i]]
    /\ UNCHANGED <<pc, error, fields, lists, given>>
    /\ UNCHANGED scoringVars
    /\ UNCHANGED <<tolerance, deduplicated, deduplicated2>>
    /\ UNCHANGED harnessVars
    /\ UNCHANGED callVars
    /\ UNCHANGED benchmarkVars

\* deduplicate_by_position(predicted) returns
ReturnDeduplicateByPosition ==
    /\ \E t \in Threads :
          /\ threads[t].at = "running"
          /\ threads[t].op = "deduplicate_by_position"
          /\ threads' = [threads EXCEPT
                ![t].at = "returned",
                ![t].value = DeduplicateByPositionOf(Deref(lists.predicted),
                                                     DefaultPositionTolerance),
                ![t].returned = {NewList(<<>>).id}]
    /\ UNCHANGED <<pc, error, fields>>
    /\ UNCHANGED scoringVars
    /\ UNCHANGED <<tolerance, deduplicated, deduplicated2>>
    /\ UNCHANGED harnessVars
    /\ UNCHANGED callVars
    /\ UNCHANGED benchmarkVars
    /\ UNCHANGED <<heap, lists, given>>

\* match_fields(predicted, ground_truth) returns
ReturnMatchFields ==
    /\ \E t \in Threads :
          /\ threads[t].at = "running"
          /\ threads[t].op = "match_fields"
          /\ \E r \in {MatchFieldsReturns(PredictedList, GroundTruthList)} :
                threads' = [threads EXCEPT
                    ![t].at = "returned",
                    ![t].value = [raised |-> r.raised, matched |-> r.matched,
                                  missed |-> r.missed, extra |-> r.extra],
                    ![t].returned = r.returned]
    /\ UNCHANGED <<pc, error, fields>>
    /\ UNCHANGED scoringVars
    /\ UNCHANGED <<tolerance, deduplicated, deduplicated2>>
    /\ UNCHANGED harnessVars
    /\ UNCHANGED callVars
    /\ UNCHANGED benchmarkVars
    /\ UNCHANGED <<heap, lists, given>>

\* score_extraction(predicted, ground_truth) returns: the ExtractionScore holds
\* the three lists of its call of match_fields
ReturnScoreExtraction ==
    /\ \E t \in Threads :
          /\ threads[t].at = "running"
          /\ threads[t].op = "score_extraction"
          /\ \E r \in {MatchFieldsReturns(PredictedList, GroundTruthList)} :
                threads' = [threads EXCEPT
                    ![t].at = "returned",
                    ![t].value =
                        [raised |-> r.raised, matched |-> r.matched,
                         missed |-> r.missed, extra |-> r.extra,
                         score |-> IF r.raised THEN NoScore
                                   ELSE ExtractionScore(Deref(lists.predicted),
                                            Deref(lists.ground_truth), WeightsNone, r.matched)],
                    ![t].returned = r.returned]
    /\ UNCHANGED <<pc, error, fields>>
    /\ UNCHANGED scoringVars
    /\ UNCHANGED <<tolerance, deduplicated, deduplicated2>>
    /\ UNCHANGED harnessVars
    /\ UNCHANGED callVars
    /\ UNCHANGED benchmarkVars
    /\ UNCHANGED <<heap, lists, given>>

NextThreads ==
    \/ EnterCall
    \/ ReturnDeduplicateBoundaryFields
    \/ ReturnDeduplicateByPosition
    \/ ReturnMatchFields
    \/ ReturnScoreExtraction

Next ==
    \/ MatchFields
    \/ ScoreExtraction

NextDedup ==
    \/ DeduplicateBoundaryFields
    \/ DeduplicateAgain
    \/ DeduplicateByPosition

Spec == Init /\ [][Next]_vars

SpecGeom == InitGeom /\ [][Next]_vars

SpecOverlap == InitOverlap /\ [][Next]_vars

SpecWeights == Init /\ [][ScoreExtractionAnyWeights]_vars

SpecDedup == InitDedup /\ [][NextDedup]_vars

SpecCall == InitCall /\ [][NextCall]_vars

SpecHarness == InitHarness /\ [][NextHarness]_vars

SpecBenchmark == InitBenchmark /\ [][NextBenchmark]_vars

SpecThreads == InitThreads /\ [][NextThreads]_vars

----------------------------------------------------------------------------
(* Properties of match_fields and score_extraction *)

Returned == pc \in {"matched", "scored"}

Range(seq) == {seq[k] : k \in DOMAIN seq}

Occurrences(seq, x) == Cardinality({k \in DOMAIN seq : seq[k] = x})

MatchedPredIndices == {matched[k].pred_idx : k \in DOMAIN matched}

MatchedTruthIndices == {matched[k].truth_idx : k \in DOMAIN matched}

PositiveRect(c) == c.k = "dict" /\ c.width > 0 /\ c.height > 0

ZeroArea(c) == c.width * c.height = 0

NormLabel(f) == Strip(Lower(f.label))

AllHundred ==
    /\ score.detection_rate = Hundred
    /\ score.precision_rate = Hundred
    /\ score.avg_iou = Hundred
    /\ score.type_accuracy = Hundred
    /\ score.label_accuracy = Hundred
    /\ score.overall_score = Hundred

AllZero ==
    /\ score.detection_rate = RZero
    /\ score.precision_rate = RZero
    /\ score.avg_iou = RZero
    /\ score.type_accuracy = RZero
    /\ score.label_accuracy = RZero
    /\ score.overall_score = RZero

SelfScored == pc = "scored" /\ predicted = ground_truth /\ weights = WeightsNone

\* C1 as stated: for any field set S, score_extraction(S, S) yields detectionRate,
\* precisionRate, avgIoU, typeAccuracy, labelAccuracy and overallScore all equal to 100.
C1_SelfScoreIsHundred == SelfScored => AllHundred

\* every field of S has a non-empty label and a rectangle of positive width and
\* height that match_fields resolves alike on the predicted and the ground-truth side
C1_Matchable(S) ==
    \A i \in DOMAIN S :
        /\ S[i].label # <<>>
        /\ PositiveRect(PredCoords(S[i]))
        /\ ~TruthCoordsRaises(S[i])
        /\ TruthCoords(S[i]) = PredCoords(S[i])

\* no two fields of S tie on rectangle and normalized label with incompatible types
C1_NoTypeTie(S) ==
    \A i, j \in DOMAIN S :
        (PredCoords(S[i]) = PredCoords(S[j]) /\ NormLabel(S[i]) = NormLabel(S[j]))
            => TypesCompatible(S[i].fieldType, S[j].fieldType)

\* C1 amended: for a non-empty field set S whose fields all have a non-empty label and
\* a rectangle of positive width and height resolved alike on both sides, and in
\* which no two fields of incompatible types share rectangle and normalized label,
\* score_extraction(S, S) with the default weights yields 100 for all six metrics.
C1_SelfScoreIsHundredAmended ==
    (SelfScored /\ predicted # <<>> /\ C1_Matchable(predicted) /\ C1_NoTypeTie(predicted))
        => AllHundred

C1_Witness ==
    /\ SelfScored
    /\ Len(predicted) = 2
    /\ predicted[1] # predicted[2]
    /\ C1_Matchable(predicted)
    /\ C1_NoTypeTie(predicted)
    /\ Len(matched) = 2

\* C2: matching is injective: no predicted index and no ground-truth index appears
\* in more than one FieldMatch of the list match_fields returns, for any threshold.
C2_InjectiveMatching ==
    Returned =>
        \A k, l \in DOMAIN matched :
            k # l => /\ matched[k].pred_idx # matched[l].pred_idx
                     /\ matched[k].truth_idx # matched[l].truth_idx

C2_Witness ==
    /\ pc = "matched"
    /\ Len(matched) = 2
    /\ Len(predicted) = 2
    /\ predicted[1] = predicted[2]

\* C3: partition completeness: every ground-truth field is the ground-truth side of
\* a match or is in missed, never both, every predicted field is the predicted side
\* of a match or is in extra, never both, so that |matched| + |missed| = nTruth and
\* |matched| + |extra| = nPred.
C3_PartitionComplete ==
    Returned =>
        /\ Len(matched) + Len(missed) = Len(ground_truth)
        /\ Len(matched) + Len(extra) = Len(predicted)
        /\ \A f \in Range(ground_truth) :
              Occurrences(ground_truth, f)
                  = Cardinality({k \in DOMAIN matched : matched[k].ground_truth = f})
                    + Occurrences(missed, f)
        /\ \A f \in Range(predicted) :
              Occurrences(predicted, f)
                  = Cardinality({k \in DOMAIN matched : matched[k].predicted = f})
                    + Occurrences(extra, f)
        /\ Range(missed) \subseteq Range(ground_truth)
        /\ Range(extra) \subseteq Range(predicted)

C3_Witness ==
    /\ pc = "matched"
    /\ Len(predicted) = 2
    /\ Len(ground_truth) = 2
    /\ Len(matched) = 1
    /\ Len(missed) = 1
    /\ Len(extra) = 1

\* the one-to-one pairings of n predicted with m ground-truth indices, complete or
\* not: p[i] is the ground-truth index paired with i, 0 for none
Pairings(n, m) ==
    {p \in [1..n -> 0..m] : \A a, b \in 1..n : (a # b /\ p[a] # 0) => p[a] # p[b]}

\* the blended score the claim speaks of, from the signals of a pair
BlendedScore(iou, label_sim, threshold) ==
    IF RLess(iou, threshold) THEN RZero
    ELSE RAdd(RMul(IouWeight, iou), RMul(LabelWeight, label_sim))

\* the blended scores of all pairs, row i for predicted[i], as tuples
RECURSIVE BlendedRow(_, _)
BlendedRow(i, j) ==
    IF j > Len(ground_truth) THEN <<>>
    ELSE <<BlendedScore(CalculateIou(PredCoords(predicted[i]), TruthCoords(ground_truth[j])),
                        CalculateLabelSimilarity(predicted[i].label, ground_truth[j].label),
                        iou_threshold)>>
         \o BlendedRow(i, j + 1)

RECURSIVE BlendedRows(_)
BlendedRows(i) ==
    IF i > Len(predicted) THEN <<>> ELSE <<BlendedRow(i, 1)>> \o BlendedRows(i + 1)

RECURSIVE PairingTotal(_, _, _)
PairingTotal(p, scores, i) ==
    IF i > Len(scores) THEN RZero
    ELSE RAdd(IF p[i] = 0 THEN RZero ELSE scores[i][p[i]], PairingTotal(p, scores, i + 1))

MatchedTotal ==
    RSum([k \in DOMAIN matched |->
            BlendedScore(matched[k].iou, matched[k].label_similarity, iou_threshold)])

\* C4: match_fields returns an optimal assignment: no one-to-one pairing of predicted
\* and ground-truth indices has a strictly larger total blended score than the
\* retained matches.
C4_OptimalAssignment ==
    Returned =>
        LET scores == BlendedRows(1)
            total == MatchedTotal
        IN  \A p \in Pairings(Len(predicted), Len(ground_truth)) :
                RLeq(PairingTotal(p, scores, 1), total)

C4_Witness ==
    /\ pc = "matched"
    /\ Len(matched) = 2
    /\ \E p \in Pairings(Len(predicted), Len(ground_truth)) :
          /\ \A i \in DOMAIN p : p[i] # 0
          /\ RLess(RZero, PairingTotal(p, BlendedRows(1), 1))
          /\ RLess(PairingTotal(p, BlendedRows(1), 1), MatchedTotal)

\* C5: the IoU gate is absolute under score_extraction: no returned FieldMatch has
\* an IoU below 0.1, and a field whose effective rectangle has zero area is in no
\* match and is in missed (ground truth) or extra (predicted), whatever its label.
C5_IouGateAbsolute ==
    pc = "scored" =>
        /\ \A k \in DOMAIN matched : ~RLess(matched[k].iou, DefaultIouThreshold)
        /\ \A i \in DOMAIN predicted :
              ZeroArea(PredCoords(predicted[i])) =>
                  /\ i \notin MatchedPredIndices
                  /\ predicted[i] \in Range(extra)
        /\ \A j \in DOMAIN ground_truth :
              ZeroArea(TruthCoords(ground_truth[j])) =>
                  /\ j \notin MatchedTruthIndices
                  /\ ground_truth[j] \in Range(missed)

C5_Witness ==
    /\ pc = "scored"
    /\ \E i \in DOMAIN predicted : \E j \in DOMAIN ground_truth :
          /\ ZeroArea(PredCoords(predicted[i]))
          /\ PositiveRect(TruthCoords(ground_truth[j]))
          /\ predicted[i].label = ground_truth[j].label
          /\ predicted[i].label # <<>>
          /\ predicted[i] \in Range(extra)
          /\ ground_truth[j] \in Range(missed)

\* C6: empty inputs short-circuit: with an empty predicted or ground-truth list
\* match_fields returns no match, every ground-truth field as missed and every
\* predicted field as extra, and score_extraction returns 0 for detectionRate,
\* precisionRate, avgIoU, typeAccuracy, labelAccuracy and overallScore; the call
\* does not raise (a weights mapping that lacks a key aside, which fails by design).
C6_EmptyInputs ==
    (predicted = <<>> \/ ground_truth = <<>>) =>
        /\ Returned => (matched = <<>> /\ missed = ground_truth /\ extra = predicted)
        /\ pc = "scored" => AllZero
        /\ pc = "raised" => (error = "KeyError" /\ WeightsRaise(weights))

C6_Witness ==
    /\ pc = "scored"
    /\ predicted = <<>>
    /\ Len(ground_truth) = 2
    /\ Len(missed) = 2
    /\ extra = <<>>

----------------------------------------------------------------------------
(* Properties of the geometry match_fields uses *)

\* both lists non-empty, so that match_fields resolved the rectangles
Resolved == Returned /\ predicted # <<>> /\ ground_truth # <<>>

\* C7 as stated: whenever a field has a present, non-empty coordinates rectangle,
\* that rectangle is the one used for its IoU in match_fields, regardless of any
\* tableConfig or dateSegments the field also carries.
C7_PrimaryCoordinatesUsed ==
    Resolved =>
        /\ \A i \in DOMAIN predicted :
              Truthy(predicted[i].coordinates) => pred_coords[i] = predicted[i].coordinates
        /\ \A j \in DOMAIN ground_truth :
              Truthy(ground_truth[j].coordinates)
                  => truth_coords[j] = ground_truth[j].coordinates
        /\ \A k \in DOMAIN matched :
              (Truthy(matched[k].predicted.coordinates)
                  /\ Truthy(matched[k].ground_truth.coordinates))
                  => matched[k].iou = CalculateIou(matched[k].predicted.coordinates,
                                                   matched[k].ground_truth.coordinates)

\* C7 amended: whenever a predicted field, or a ground-truth field that carries no
\* tableConfig, has a present, non-empty coordinates rectangle, that rectangle is the
\* one used for its IoU in match_fields, regardless of the dateSegments (and, on the
\* predicted side, the tableConfig) it also carries; a ground-truth field that
\* carries a tableConfig is scored with tableConfig.coordinates ({} when missing).
C7_PrimaryCoordinatesUsedAmended ==
    Resolved =>
        /\ \A i \in DOMAIN predicted :
              Truthy(predicted[i].coordinates) => pred_coords[i] = predicted[i].coordinates
        /\ \A j \in DOMAIN ground_truth :
              IF ground_truth[j].tableConfig.k = "absent"
              THEN Truthy(ground_truth[j].coordinates)
                       => truth_coords[j] = ground_truth[j].coordinates
              ELSE truth_coords[j]
                       = GetOr(ground_truth[j].tableConfig.coordinates, EmptyDict)
        /\ \A k \in DOMAIN matched :
              (Truthy(matched[k].predicted.coordinates)
                  /\ Truthy(matched[k].ground_truth.coordinates)
                  /\ matched[k].ground_truth.tableConfig.k = "absent")
                  => matched[k].iou = CalculateIou(matched[k].predicted.coordinates,
                                                   matched[k].ground_truth.coordinates)

C7_Witness ==
    /\ Resolved
    /\ \E k \in DOMAIN matched :
          /\ Truthy(matched[k].ground_truth.coordinates)
          /\ matched[k].ground_truth.dateSegments.segs # <<>>
          /\ BoundingBoxFromSegments(matched[k].ground_truth.dateSegments)
                 # matched[k].ground_truth.coordinates
          /\ Truthy(matched[k].predicted.coordinates)
          /\ matched[k].predicted.tableConfig.k = "dict"

\* a field with no primary coordinates whose geometry is nested: the coordinates of
\* its tableConfig when it is a table, its dateSegments otherwise
NestedOnly(f) ==
    /\ f.coordinates.k \in {"absent", "empty"}
    /\ f.box.k = "absent"
    /\ \/ f.fieldType = S_table /\ f.tableConfig.k = "dict"
       \/ f.tableConfig.k = "absent" /\ f.dateSegments.segs # <<>>

NestedRect(f) ==
    IF f.tableConfig.k = "dict" THEN f.tableConfig.coordinates
    ELSE BoundingBoxFromSegments(f.dateSegments)

\* C8: geometry is resolved by the same rules on both sides: a predicted or
\* ground-truth field with no primary coordinates is scored with
\* tableConfig.coordinates when it is a table, or with the enclosing box of its
\* dateSegments, so such a field compared with an identical copy of itself has IoU 1.
C8_NestedGeometryBothSides ==
    Resolved =>
        \A i \in DOMAIN predicted : \A j \in DOMAIN ground_truth :
            (predicted[i] = ground_truth[j] /\ NestedOnly(predicted[i])
                /\ PositiveRect(NestedRect(predicted[i])))
                => /\ pred_coords[i] = NestedRect(predicted[i])
                   /\ truth_coords[j] = NestedRect(ground_truth[j])
                   /\ CalculateIou(pred_coords[i], truth_coords[j]) = ROne

\* no coordinates, box, tableConfig coordinates or dateSegments that hold a rectangle
NoGeometry(f) ==
    /\ ~Truthy(f.coordinates)
    /\ ~Truthy(f.box)
    /\ ~Truthy(f.tableConfig.coordinates)
    /\ f.dateSegments.segs = <<>>

Degenerate(c) == c.left = 0 /\ c.top = 0 /\ c.width = 0 /\ c.height = 0

\* C9: missing or malformed geometry never makes scoring fail: with fields whose
\* geometry is absent, empty or null, match_fields and score_extraction complete
\* without raising and treat the field's rectangle as {0, 0, 0, 0}.
C9_MissingGeometryNeverFails ==
    /\ error # "AttributeError"
    /\ Resolved =>
          /\ \A i \in DOMAIN predicted :
                NoGeometry(predicted[i]) => Degenerate(pred_coords[i])
          /\ \A j \in DOMAIN ground_truth :
                NoGeometry(ground_truth[j]) => Degenerate(truth_coords[j])

\* C17: if the caller-provided weights mapping lacks any of the five required
\* keys, score_extraction fails with an error and returns no ExtractionScore; it
\* never substitutes a default weight for the missing key.
C17_MissingWeightFails ==
    (weights.k = "dict" /\ \E key \in WeightKeys : key \notin weights.keys)
        => /\ pc = "raised"
           /\ error = "KeyError"
           /\ score = NoScore

\* a mapping that lacks a single key, on non-empty lists with a match
C17_Witness ==
    /\ pc = "raised"
    /\ weights.k = "dict"
    /\ Cardinality(weights.keys) = 4
    /\ matched # <<>>

----------------------------------------------------------------------------
(* Properties of the ExtractionScore *)

Scored == pc = "scored"

InPercentRange(x) == RLeq(RZero, x) /\ RLeq(x, Hundred)

\* C22: in every ExtractionScore, detectionRate * nTruth = precisionRate * nPred =
\* 100 * |matched|; a rate is 0 when its denominator is 0, and both rates lie in
\* [0, 100].
C22_RatesFromMatchCount ==
    Scored =>
        /\ RMul(score.detection_rate, RFromInt(Len(ground_truth))) = RFromInt(100 * Len(matched))
        /\ RMul(score.precision_rate, RFromInt(Len(predicted))) = RFromInt(100 * Len(matched))
        /\ Len(ground_truth) = 0 => score.detection_rate = RZero
        /\ Len(predicted) = 0 => score.precision_rate = RZero
        /\ InPercentRange(score.detection_rate)
        /\ InPercentRange(score.precision_rate)

\* one match among two predicted fields and one ground-truth field
C22_Witness ==
    /\ Scored
    /\ Len(predicted) = 2
    /\ Len(ground_truth) = 1
    /\ Len(matched) = 1
    /\ score.detection_rate = Hundred
    /\ score.precision_rate = <<50, 1>>

\* C23: with the default weights, overallScore equals 0.25*detectionRate +
\* 0.10*precisionRate + 0.30*avgIoU + 0.20*typeAccuracy + 0.15*labelAccuracy,
\* lies in [0, 100], and equals 100 only when all five metrics are 100.
C23_OverallScoreWeighted ==
    (Scored /\ weights = WeightsNone) =>
        /\ score.overall_score =
              RSum(<< RMul(<<1, 4>>, score.detection_rate),
                      RMul(<<1, 10>>, score.precision_rate),
                      RMul(<<3, 10>>, score.avg_iou),
                      RMul(<<1, 5>>, score.type_accuracy),
                      RMul(<<3, 20>>, score.label_accuracy) >>)
        /\ InPercentRange(score.overall_score)
        /\ score.overall_score = Hundred => AllHundred

\* a score strictly between 0 and 100 whose five metrics are not all equal
C23_Witness ==
    /\ Scored
    /\ weights = WeightsNone
    /\ RLess(RZero, score.overall_score)
    /\ RLess(score.overall_score, Hundred)
    /\ score.detection_rate # score.precision_rate
    /\ score.avg_iou # score.label_accuracy
    /\ score.type_accuracy # score.avg_iou

\* the number of matches whose IoU lies in [lo, hi), hi excluded
InBucket(lo, hi) ==
    Cardinality({k \in DOMAIN matched :
        RLeq(lo, matched[k].iou) /\ RLess(matched[k].iou, hi)})

\* C24: the four iouDistribution buckets partition the matches: every match is
\* counted in exactly one of [0, 0.25), [0.25, 0.5), [0.5, 0.75), [0.75, 1.0], the
\* boundary values falling in the upper bucket, so the counts sum to |matched|.
C24_BucketsPartition ==
    Scored =>
        /\ score.iou_distribution.lt25 = InBucket(RZero, <<1, 4>>)
        /\ score.iou_distribution.b25_50 = InBucket(<<1, 4>>, <<1, 2>>)
        /\ score.iou_distribution.b50_75 = InBucket(<<1, 2>>, <<3, 4>>)
        /\ score.iou_distribution.gt75 = InBucket(<<3, 4>>, <<2, 1>>)
        /\ score.iou_distribution.lt25 + score.iou_distribution.b25_50
              + score.iou_distribution.b50_75 + score.iou_distribution.gt75 = Len(matched)

\* two matches, one of them at a bucket boundary
C24_Witness ==
    /\ Scored
    /\ Len(matched) = 2
    /\ \E k \in DOMAIN matched : matched[k].iou \in {<<1, 4>>, <<1, 2>>, <<3, 4>>}
    /\ score.iou_distribution.lt25 = 0

TableCount(list) == Cardinality({i \in DOMAIN list : list[i].fieldType = S_table})

\* C25: tableDetection is true exactly when the ground truth contains no table
\* field or the predicted fields of type table are at least as many as the
\* ground-truth fields of type table; it depends on these two counts only.
C25_TableDetectionByCount ==
    Scored =>
        score.table_detection =
            (TableCount(ground_truth) = 0 \/ TableCount(predicted) >= TableCount(ground_truth))

\* as many predicted as ground-truth tables, none of them matched
C25_Witness ==
    /\ Scored
    /\ TableCount(ground_truth) = 1
    /\ TableCount(predicted) = 1
    /\ matched = <<>>
    /\ score.table_detection = TRUE

TableMatches == {k \in DOMAIN matched : matched[k].ground_truth.fieldType = S_table}

\* C26: tableCellAccuracy is 100 times the mean IoU of the matches whose
\* ground-truth field is a table, and 100 whenever no such match exists, also
\* when the ground truth contains table fields that were all missed.
C26_TableCellAccuracy ==
    Scored =>
        /\ TableMatches = {} => score.table_cell_accuracy = Hundred
        /\ TableMatches # {} =>
              RMul(score.table_cell_accuracy, RFromInt(Cardinality(TableMatches)))
                  = RMul(Hundred, RSum([k \in DOMAIN matched |->
                        IF k \in TableMatches THEN matched[k].iou ELSE RZero]))

\* a ground-truth table that was missed
C26_Witness ==
    /\ Scored
    /\ TableCount(ground_truth) = 1
    /\ TableMatches = {}
    /\ missed # <<>>

----------------------------------------------------------------------------
(* Properties of deduplicate_boundary_fields *)

\* C10: applying deduplicate_boundary_fields to its own output changes nothing:
\* dedup(dedup(L, t), t) = dedup(L, t), same fields in the same order.
C10_DedupIdempotent == pc = "deduped_twice" => deduplicated2 = deduplicated

C10_Witness ==
    /\ pc = "deduped_twice"
    /\ Len(fields) = 3
    /\ Len(deduplicated) = 2
    /\ \E i, j \in DOMAIN fields :
          /\ i < j
          /\ FieldsMatch(fields[i], fields[j], tolerance)
          /\ \E l \in DOMAIN fields :
                FieldsMatch(fields[j], fields[l], tolerance)
                    /\ ~FieldsMatch(fields[i], fields[l], tolerance)

\* the scan order and the scanned indices kept by the first call
ScanOrder == SortedByQuadrant(fields)

KeptSet == Range(KeptIndices(ScanOrder, 1, {}, tolerance))

BoundaryDeduped == pc \in {"deduped", "deduped_twice"}

\* the returned list is the kept fields of the scan, without their region tag
ReturnsKept ==
    LET kept == KeptIndices(ScanOrder, 1, {}, tolerance)
    IN  deduplicated = [k \in 1..Len(kept) |-> StripInternal(ScanOrder[kept[k]])]

Tagged2(f, g) == f.quadrant # <<>> /\ g.quadrant # <<>>

\* C11: the earliest-region copy always wins: whenever two input fields satisfy
\* fields_match within the tolerance and carry different region tags, the output
\* never contains the higher-tagged field of the pair while the lower-tagged one
\* has been discarded.
C11_EarliestRegionWins ==
    BoundaryDeduped =>
        /\ ReturnsKept
        /\ \A a, b \in DOMAIN ScanOrder :
              (/\ Tagged2(ScanOrder[a], ScanOrder[b])
               /\ QuadrantOf(ScanOrder[a]) < QuadrantOf(ScanOrder[b])
               /\ FieldsMatch(ScanOrder[a], ScanOrder[b], tolerance))
                  => ~(b \in KeptSet /\ a \notin KeptSet)

\* C11 amended: of two matching input fields with different region tags (an
\* untagged field counts as region 0) the output never holds both; a discarded
\* field is the duplicate of a kept field whose tag is not higher than its own,
\* so the higher-tagged field of the pair survives only when the lower-tagged
\* one was discarded as the duplicate of such an earlier kept field.
C11_EarliestRegionWinsAmended ==
    BoundaryDeduped =>
        /\ ReturnsKept
        /\ \A a, b \in DOMAIN ScanOrder :
              (/\ QuadrantOf(ScanOrder[a]) < QuadrantOf(ScanOrder[b])
               /\ FieldsMatch(ScanOrder[a], ScanOrder[b], tolerance))
                  => /\ ~(a \in KeptSet /\ b \in KeptSet)
                     /\ a \notin KeptSet =>
                            \E c \in KeptSet :
                                /\ c # a
                                /\ QuadrantOf(ScanOrder[c]) <= QuadrantOf(ScanOrder[a])
                                /\ FieldsMatch(ScanOrder[c], ScanOrder[a], tolerance)

\* a chain: the lower-tagged field of a matching pair is discarded as the
\* duplicate of a still earlier field, and the higher-tagged one is returned
C11_Witness ==
    /\ pc = "deduped"
    /\ \E a, b \in DOMAIN ScanOrder :
          /\ Tagged2(ScanOrder[a], ScanOrder[b])
          /\ QuadrantOf(ScanOrder[a]) < QuadrantOf(ScanOrder[b])
          /\ FieldsMatch(ScanOrder[a], ScanOrder[b], tolerance)
          /\ a \notin KeptSet
          /\ b \in KeptSet
    /\ \E a, b \in DOMAIN ScanOrder :
          /\ QuadrantOf(ScanOrder[a]) < QuadrantOf(ScanOrder[b])
          /\ FieldsMatch(ScanOrder[a], ScanOrder[b], tolerance)
          /\ a \in KeptSet
          /\ b \notin KeptSet

\* C27: the output of deduplicate_boundary_fields is duplicate-free: for every
\* input list and tolerance, no two distinct fields of the output satisfy
\* fields_match with that tolerance.
C27_OutputDuplicateFree ==
    pc = "deduped" =>
        \A k, l \in DOMAIN deduplicated :
            k # l => ~FieldsMatch(deduplicated[k], deduplicated[l], tolerance)

\* three detections of one field, of which one is returned
C27_Witness ==
    /\ pc = "deduped"
    /\ Len(fields) = 3
    /\ Len(deduplicated) = 1
    /\ \A i, j \in DOMAIN fields : FieldsMatch(fields[i], fields[j], tolerance)
    /\ fields[1] # fields[2]
    /\ fields[2] # fields[3]

\* C28: deduplicate_boundary_fields never drops a field without a surviving
\* representative: every input field absent from the output satisfies
\* fields_match with some field that is in the output and whose region tag is
\* less than or equal to its own.
C28_DroppedHasRepresentative ==
    pc = "deduped" =>
        /\ ReturnsKept
        /\ \A a \in DOMAIN ScanOrder :
              a \notin KeptSet =>
                  \E c \in KeptSet :
                      /\ QuadrantOf(ScanOrder[c]) <= QuadrantOf(ScanOrder[a])
                      /\ FieldsMatch(ScanOrder[c], ScanOrder[a], tolerance)

\* a dropped field given ahead of its representative of a lower region
C28_Witness ==
    /\ pc = "deduped"
    /\ Len(fields) = 2
    /\ Len(deduplicated) = 1
    /\ QuadrantOf(fields[1]) > QuadrantOf(fields[2])
    /\ deduplicated[1] = StripInternal(fields[2])
    /\ deduplicated[1] # StripInternal(fields[1])

----------------------------------------------------------------------------
(* Properties shared by the two deduplicators *)

StrictlyIncreasing(g) == \A k, l \in DOMAIN g : k < l => g[k] < g[l]

\* g lists input indices by ascending region tag and, for equal tags, input order
ByTagThenInput(g) ==
    \A k, l \in DOMAIN g :
        k < l => \/ QuadrantOf(fields[g[k]]) < QuadrantOf(fields[g[l]])
                 \/ /\ QuadrantOf(fields[g[k]]) = QuadrantOf(fields[g[l]])
                    /\ g[k] < g[l]

\* C12: both deduplicators return a sub-list of their input: every output field
\* is an input field (identical apart from removal of the region tag), nothing is
\* created or renamed, and any two surviving fields appear in the output in the
\* same relative order they had in the input list.
C12_SubListOfInput ==
    pc \in {"deduped", "position_deduped"} =>
        \E g \in [DOMAIN deduplicated -> DOMAIN fields] :
            /\ StrictlyIncreasing(g)
            /\ \A k \in DOMAIN deduplicated :
                  \/ deduplicated[k] = fields[g[k]]
                  \/ deduplicated[k] = StripInternal(fields[g[k]])

\* C12 amended: deduplicate_by_position returns input fields unchanged, in input
\* order; deduplicate_boundary_fields returns input fields without their region
\* tag, each input field at most once, ordered by ascending region tag (untagged
\* as 0) and in input order among fields of equal tag.
C12_SubListOfInputAmended ==
    /\ pc = "position_deduped" =>
          \E g \in [DOMAIN deduplicated -> DOMAIN fields] :
              /\ StrictlyIncreasing(g)
              /\ \A k \in DOMAIN deduplicated : deduplicated[k] = fields[g[k]]
    /\ pc = "deduped" =>
          \E g \in [DOMAIN deduplicated -> DOMAIN fields] :
              /\ ByTagThenInput(g)
              /\ \A k \in DOMAIN deduplicated :
                    deduplicated[k] = StripInternal(fields[g[k]])

\* two survivors of deduplicate_boundary_fields that the sort has exchanged, and
\* two of equal tag
C12_Witness ==
    /\ pc = "deduped"
    /\ Len(deduplicated) = 3
    /\ QuadrantOf(fields[1]) > QuadrantOf(fields[2])
    /\ QuadrantOf(fields[2]) = QuadrantOf(fields[3])

----------------------------------------------------------------------------
(* Properties of deduplicate_by_position *)

HasRect(f) == CoordsOrBox(f).k = "dict"

\* both fields have a rectangle and the two are within tol on all four components
WithinTolerance(f, g, tol) ==
    /\ HasRect(f)
    /\ HasRect(g)
    /\ \A d \in { CoordsOrBox(f).left - CoordsOrBox(g).left,
                   CoordsOrBox(f).top - CoordsOrBox(g).top,
                   CoordsOrBox(f).width - CoordsOrBox(g).width,
                   CoordsOrBox(f).height - CoordsOrBox(g).height } :
          d <= tol /\ -d <= tol

\* the elements of seq at the indices in K, in order
Restrict(seq, K) ==
    LET F[i \in 0..Len(seq)] ==
            IF i = 0 THEN <<>>
            ELSE IF i \in K THEN Append(F[i - 1], seq[i]) ELSE F[i - 1]
    IN  F[Len(seq)]

\* C14: deduplicate_by_position walks the fields in input order and keeps a field
\* if and only if no previously kept field's rectangle is within the tolerance on
\* all four of left, top, width and height, irrespective of label and type; the
\* first of any fields matching by position survives with its own label and type.
\* (A field without a rectangle is within the tolerance of nothing.)
C14_FirstAtPositionKept ==
    pc = "position_deduped" =>
        \E K \in SUBSET DOMAIN fields :
            /\ \A i \in DOMAIN fields :
                  i \in K <=> ~\E j \in K : j < i /\ WithinTolerance(fields[j], fields[i], tolerance)
            /\ deduplicated = Restrict(fields, K)

\* a later field at the position of a kept one, under another label, is dropped,
\* and a field within the tolerance of a dropped field only is kept
C14_Witness ==
    /\ pc = "position_deduped"
    /\ Len(fields) = 3
    /\ Len(deduplicated) = 2
    /\ WithinTolerance(fields[1], fields[2], tolerance)
    /\ fields[1].label # fields[2].label
    /\ WithinTolerance(fields[2], fields[3], tolerance)
    /\ ~WithinTolerance(fields[1], fields[3], tolerance)
    /\ deduplicated = <<fields[1], fields[3]>>

----------------------------------------------------------------------------
(* Properties of the harness *)

\* C15: a predicted field set produced by the four-quadrant extraction is always
\* passed through deduplicate_boundary_fields before it is handed to
\* score_extraction: on every path of _extract_quadrants followed by
\* run_single_test the scored fields carry no _quadrant tag and contain no pair
\* that satisfies fields_match.
C15_ScoredFieldsDeduplicated ==
    pc = "scored" =>
        /\ \A k \in DOMAIN predicted : predicted[k].quadrant = NoQuadrant
        /\ \A k, l \in DOMAIN predicted :
              k # l => ~FieldsMatch(predicted[k], predicted[l], DefaultTolerance)

----------------------------------------------------------------------------
(* Properties of the functions called on their own *)

\* lowercased and trimmed
Normalized(str) == Strip(Lower(str))

\* C13: fields_match(f1, f2, tol) is true exactly when the two fields have the
\* same normalized type, the same normalized label (lowercased and trimmed) and
\* each of left, top, width and height differs by at most tol between them.
\* (Stated for two fields that both have a rectangle, the type lowercased.)
C13_FieldsMatchExactly ==
    (fn = "fields_match" /\ HasRect(args[1]) /\ HasRect(args[2])) =>
        result = (/\ Lower(args[1].fieldType) = Lower(args[2].fieldType)
                  /\ NormLabel(args[1]) = NormLabel(args[2])
                  /\ WithinTolerance(args[1], args[2], args[3]))

\* C13 amended: fields_match is true exactly when the two fields have the same
\* lowercased type, both labels are non-empty and equal after lowercasing and
\* trimming, both fields have a non-empty rectangle (coordinates, or box when the
\* coordinates key is absent) and each of left, top, width and height differs by
\* at most tol.
C13_FieldsMatchExactlyAmended ==
    fn = "fields_match" =>
        result = (/\ Lower(args[1].fieldType) = Lower(args[2].fieldType)
                  /\ args[1].label # <<>>
                  /\ args[2].label # <<>>
                  /\ NormLabel(args[1]) = NormLabel(args[2])
                  /\ HasRect(args[1])
                  /\ HasRect(args[2])
                  /\ WithinTolerance(args[1], args[2], args[3]))

\* "Name" against " name" in another letter case of the type, one point apart
C13_Witness ==
    /\ fn = "fields_match"
    /\ result = TRUE
    /\ args[1].label = L_Name
    /\ args[2].label = L_name_sp
    /\ args[1].fieldType # args[2].fieldType
    /\ args[1].coordinates # args[2].coordinates

\* C16: calculate_label_similarity returns 0 whenever either label is empty after
\* normalization (lowercasing and trimming), labels of whitespace only included;
\* it returns 1.0 only for two non-empty normalized labels that are equal.
C16_EmptyLabelScoresZero ==
    fn = "calculate_label_similarity" =>
        LET a == Normalized(args[1])
            b == Normalized(args[2])
        IN  /\ (a = <<>> \/ b = <<>>) => result = RZero
            /\ result = ROne => (a # <<>> /\ b # <<>> /\ a = b)

\* C18: calculate_iou returns a value in [0, 1] for every pair of rectangles,
\* zero-area rectangles and rectangles of negative width or height included.
C18_IouInUnitInterval ==
    fn = "calculate_iou" => (RLeq(RZero, result) /\ RLeq(result, ROne))

\* a rectangle of negative width against one of positive area that it would
\* overlap were its extent taken as positive
C18_Witness ==
    /\ fn = "calculate_iou"
    /\ args[1].k = "dict"
    /\ args[1].width < 0
    /\ args[1].height > 0
    /\ args[2].width > 0
    /\ args[2].height > 0
    /\ args[2].left < args[1].left
    /\ args[2].top = args[1].top

\* C19: calculate_iou is symmetric: IoU(A, B) = IoU(B, A) for all rectangles.
C19_IouSymmetric ==
    fn = "calculate_iou" => result = CalculateIou(args[2], args[1])

\* two rectangles of different areas that overlap in part
C19_Witness ==
    /\ fn = "calculate_iou"
    /\ RLess(RZero, result)
    /\ RLess(result, ROne)
    /\ args[1].width * args[1].height # args[2].width * args[2].height

\* C20: types_compatible is symmetric over all pairs of the eleven field types in
\* any letter case, and true exactly when the two types are equal after
\* lowercasing and trimming or the unordered pair is {text, textarea} or
\* {date, linkeddate}.
C20_TypesCompatibleSymmetric ==
    fn = "types_compatible" =>
        LET a == Normalized(args[1])
            b == Normalized(args[2])
        IN  /\ result = TypesCompatible(args[2], args[1])
            /\ result = (\/ a = b
                          \/ {a, b} = {S_text, S_textarea}
                          \/ {a, b} = {S_date, S_linkeddate})

\* linkedDate as enumerated against DATE
C20_Witness ==
    /\ fn = "types_compatible"
    /\ args[1] = S_linkedDate
    /\ args[2] = Upper(S_date)
    /\ result = TRUE

----------------------------------------------------------------------------
(* Properties of run_benchmark *)

RunRaised(c) == futures[c].returns.error # "None"

Entries(c) == {k \in DOMAIN results : results[k] = <<c>>}

\* the workers are done and the loop over as_completed is left
PoolHasDrained ==
    /\ pc \in {"drained", "raised"}
    /\ \A c \in TestConfigs : futures[c].state \in {"finished", "collected"}

\* writing a result file failed
SavingFailed == error = "OSError"

\* C30: when the pool has drained and no result file failed to be written,
\* whatever the order in which the workers finished, completed equals the
\* number of configurations and results holds exactly one entry for each
\* configuration whose run raised nothing and none for a configuration whose
\* run raised
C30_EachConfigurationAccounted ==
    PoolHasDrained /\ ~SavingFailed =>
        /\ completed = Cardinality(TestConfigs)
        /\ \A c \in TestConfigs :
              Cardinality(Entries(c)) = IF RunRaised(c) THEN 0 ELSE 1
        /\ \A k \in DOMAIN results : \E c \in TestConfigs : results[k] = <<c>>

\* the same for runs that raise exceptions with a message only: the pool has
\* drained after a run that raised and two that did not, which were collected
\* against the order of the test matrix, and every configuration is accounted
RaisedWithMessage == \A c \in TestConfigs : futures[c].returns.error # ""

C30_AccountedWhenMessagesNonEmpty ==
    PoolHasDrained /\ ~SavingFailed /\ RaisedWithMessage =>
        /\ completed = Cardinality(TestConfigs)
        /\ \A c \in TestConfigs :
              Cardinality(Entries(c)) = IF RunRaised(c) THEN 0 ELSE 1

----------------------------------------------------------------------------
(* Properties of concurrent calls *)

\* what match_fields returns for the lists as the callers received them
MatchAlone ==
    SolverChoice(MatchOutcomes(given.predicted, given.ground_truth, DefaultIouThreshold))

\* the result of each function called alone on the lists as the callers
\* received them
ResultAlone(op) ==
    CASE op = "deduplicate_boundary_fields" ->
            DeduplicateBoundaryFieldsOf(given.predicted, DefaultTolerance)
      [] op = "deduplicate_by_position" ->
            DeduplicateByPositionOf(given.predicted, DefaultPositionTolerance)
      [] op = "match_fields" ->
            [raised |-> MatchAlone.raised, matched |-> MatchAlone.matched,
             missed |-> MatchAlone.missed, extra |-> MatchAlone.extra]
      [] op = "score_extraction" ->
            [raised |-> MatchAlone.raised, matched |-> MatchAlone.matched,
             missed |-> MatchAlone.missed, extra |-> MatchAlone.extra,
             score |-> IF MatchAlone.raised THEN NoScore
                       ELSE ExtractionScore(given.predicted, given.ground_truth,
                                            WeightsNone, MatchAlone.matched)]

HasReturned(t) == threads[t].at = "returned"

\* C21: in every interleaving of two threads that call score_extraction,
\* match_fields, deduplicate_boundary_fields or deduplicate_by_position on the
\* same lists, a call returns what the function returns when it runs alone on
\* these lists, and two calls of the same function return equal results
C21_ConcurrentCallsReturnAsAlone ==
    /\ \A t \in Threads : HasReturned(t) => threads[t].value = ResultAlone(threads[t].op)
    /\ \A t, u \in Threads :
          HasReturned(t) /\ HasReturned(u) /\ threads[t].op = threads[u].op
              => threads[t].value = threads[u].value

\* deduplicate_by_position has returned a shorter list while the other thread
\* is inside deduplicate_boundary_fields, past the sort of the same list, which
\* was not in the order of its region tags
C21_Witness ==
    /\ \E t, u \in Threads :
          /\ HasReturned(t)
          /\ threads[t].op = "deduplicate_by_position"
          /\ Len(threads[t].value) < Len(given.predicted)
          /\ threads[u].at = "running"
          /\ threads[u].op = "deduplicate_boundary_fields"
          /\ threads[u].local # lists.predicted

\* C29: whatever calls of score_extraction, match_fields,
\* deduplicate_boundary_fields and deduplicate_by_position have been made, the
\* two input lists hold the same fields in the same order with the same
\* contents, region tags included, as when they were passed, and every list a
\* call returned is a new list, not one of the input lists
C29_InputsUnchangedListsNew ==
    /\ Deref(lists.predicted) = given.predicted
    /\ Deref(lists.ground_truth) = given.ground_truth
    /\ \A t \in Threads : threads[t].returned \subseteq {"new"}

\* match_fields has returned on the empty-input path, and
\* deduplicate_boundary_fields has dropped a field of a list with region tags
C29_Witness ==
    /\ \E t, u \in Threads :
          /\ HasReturned(t)
          /\ threads[t].op = "match_fields"
          /\ given.ground_truth = <<>>
          /\ threads[t].value.extra = given.predicted
          /\ HasReturned(u)
          /\ threads[u].op = "deduplicate_boundary_fields"
          /\ Len(threads[u].value) < Len(given.predicted)
          /\ \E k \in DOMAIN given.predicted : given.predicted[k].quadrant # <<>>

====
